---- MODULE Spec2Model ----
(***************************************************************************)
(* Model of the GMTK input.master generator of cnvway:                     *)
(*   src/gen_gmtk_params.py     object model, name generator, registry     *)
(*   src/segway_input_master.py Segway-specific builders and orchestrator  *)
(*                                                                         *)
(* Seven specifications share the variables below:                         *)
(*   SpecNames     generate_gmtk_obj_names applied to bounded inputs       *)
(*   SpecRegistry  InputMaster.update and the render methods               *)
(*   Spec          the ParamSpec generation helpers and make_mapping       *)
(*   SpecTable     the duration table of TableParamSpec                    *)
(*   SpecWire      the constructors DPMF and MX                            *)
(*   SpecYield     the generators of DenseCPTParamSpec and DTParamSpec     *)
(*   SpecPasses    several make_mapping passes on the one registry         *)
(***************************************************************************)
EXTENDS Integers, Sequences, FiniteSets, TLC

VARIABLES
    num_segs,            \* saver / ParamSpec attribute
    num_subsegs,         \* saver / ParamSpec attribute
    track_names,         \* ParamSpec.track_names (names of self.tracks)
    distribution,        \* saver / ParamSpec attribute
    num_mix_components,  \* saver / ParamSpec attribute
    USE_MFSDG,           \* module flag imported from _util (fixed per process)
    input_master,        \* the process-wide InputMaster registry
    random_state,        \* position in the stream of the seeded generator
    obj,                 \* argument of the pure function under test
    hist,                \* calls made so far: <<[op, exc]>>
    ret,                 \* value returned by the last call
    card_seg_countdown,  \* TableParamSpec attribute
    seg_table,           \* TableParamSpec attribute: rows [start, end, step]
    seg_countdowns_initial, \* TableParamSpec attribute
    resolution           \* TableParamSpec attribute

vars == <<num_segs, num_subsegs, track_names, distribution,
          num_mix_components, USE_MFSDG, input_master, random_state, obj,
          hist, ret, card_seg_countdown, seg_table, seg_countdowns_initial,
          resolution>>

cfgVars == <<num_segs, num_subsegs, track_names, distribution,
             num_mix_components, USE_MFSDG>>

tableVars == <<card_seg_countdown, seg_table, seg_countdowns_initial,
               resolution>>

-----------------------------------------------------------------------------
(* Bounds of the model *)

MaxSegs == 2
MaxSubsegs == 2
MaxTracks == 2
MaxMix == 2

-----------------------------------------------------------------------------
(* Sequence helpers *)

\* the list built by "for k in range(n): acc.extend(F(k))"
ConcatRange(n, F(_)) ==
    LET f[k \in 0..n] == IF k = 0 THEN << >> ELSE f[k - 1] \o F(k - 1)
    IN f[n]

\* sep.join(parts) of Python, for a list of strings
Join(sep, parts) ==
    LET f[k \in 0..Len(parts)] ==
            IF k = 0 THEN ""
            ELSE IF k = 1 THEN parts[1]
            ELSE f[k - 1] \o sep \o parts[k]
    IN f[Len(parts)]

Range(s) == {s[k] : k \in 1..Len(s)}

\* list * n of Python
Repeat(s, n) == ConcatRange(n, LAMBDA k : s)

-----------------------------------------------------------------------------
(* Values of the imported distribution selectors *)

DISTRIBUTION_NORM == "norm"
DISTRIBUTION_ASINH_NORMAL == "asinh_norm"
DISTRIBUTION_GAMMA == "gamma"
DISTRIBUTIONS_LIKE_NORM == {DISTRIBUTION_NORM, DISTRIBUTION_ASINH_NORMAL}

\* the distribution values a run may be configured with; "poisson" stands
\* for any unsupported value
Distributions ==
    {DISTRIBUTION_NORM, DISTRIBUTION_ASINH_NORMAL, DISTRIBUTION_GAMMA,
     "poisson"}

AllTracks == <<"t1", "t2", "t3", "t4">>
TrackLists == {SubSeq(AllTracks, 1, n) : n \in 1..MaxTracks}

-----------------------------------------------------------------------------
(* gen_gmtk_params.generate_gmtk_obj_names *)

\* allowed_types with the last tag left out
allowed_types_without_tied_covar ==
    {"mx", "mc_diag", "mc_gamma", "mc_missing", "mean", "covar", "col",
     "mx_name", "dpmf", "gammascale", "gammashape"}

allowed_types ==
    {"mx", "mc_diag", "mc_gamma", "mc_missing", "mean", "covar", "col",
     "mx_name", "dpmf", "gammascale", "gammashape", "tied_covar"}

\* the innermost statement of the general branch: one name per
\* (seg i, subseg j, track name)
general_line(o, dist, i, j, name) ==
    IF o = "mc_diag"
    THEN "mc_" \o dist \o "_seg" \o ToString(i) \o "_subseg" \o ToString(j)
            \o "_" \o name
    ELSE IF o = "mc_missing"
    THEN ""
    ELSE o \o "_seg" \o ToString(i) \o "_subseg" \o ToString(j)
            \o "_" \o name

\* the mx_name loops nested as in the general branch (seg outermost)
mx_name_branch_seg_outer(tn, ns, nu) ==
    ConcatRange(ns, LAMBDA i :
      ConcatRange(nu, LAMBDA j :
        ConcatRange(Len(tn), LAMBDA k :
          << "mx_seg" \o ToString(i) \o "_subseg" \o ToString(j)
                \o "_" \o tn[k + 1] >>)))

\* for name in track_names: for i in range(num_segs):
\*     for j in range(num_subsegs)
mx_name_branch(tn, ns, nu) ==
    ConcatRange(Len(tn), LAMBDA k :
      ConcatRange(ns, LAMBDA i :
        ConcatRange(nu, LAMBDA j :
          << "mx_seg" \o ToString(i) \o "_subseg" \o ToString(j)
                \o "_" \o tn[k + 1] >>)))

\* the general loops with the subseg loop outermost
general_branch_subseg_outer(o, tn, ns, nu, dist) ==
    ConcatRange(nu, LAMBDA j :
      ConcatRange(ns, LAMBDA i :
        ConcatRange(Len(tn), LAMBDA k :
          << general_line(o, dist, i, j, tn[k + 1]) >>)))

\* for i in range(num_segs): for j in range(num_subsegs):
\*     for name in track_names
general_branch(o, tn, ns, nu, dist) ==
    ConcatRange(ns, LAMBDA i :
      ConcatRange(nu, LAMBDA j :
        ConcatRange(Len(tn), LAMBDA k :
          << general_line(o, dist, i, j, tn[k + 1]) >>)))

\* result: [exc |-> "none", val |-> names] or [exc |-> "ValueError", ...]
generate_gmtk_obj_names(o, tn, ns, nu, dist, nmc) ==
    IF o \notin allowed_types
    THEN [exc |-> "ValueError", val |-> << >>]
    ELSE [exc |-> "none",
          val |->
            IF o = "covar"
            THEN [k \in 1..Len(tn) |-> "covar_" \o tn[k]]
            ELSE IF o = "tied_covar"
            THEN [k \in 1..Len(tn) |-> "covar_" \o tn[k]]
            ELSE IF o = "col"
            THEN [k \in 1..Len(tn) |-> "collection_seg_" \o tn[k]]
            ELSE IF o = "mx_name"
            THEN mx_name_branch(tn, ns, nu)
            ELSE IF o = "dpmf" /\ nmc = 1
            THEN << "dpmf_always" >>
            ELSE general_branch(o, tn, ns, nu, dist)]

-----------------------------------------------------------------------------
(* Python values held by the wire objects.  Floats are kept in tenths, so   *)
(* that 0.5 is PyFloat(5) and 1.0 is PyFloat(10).                           *)

PyFloat(n) == [ty |-> "float", v |-> n]
PyInt(n) == [ty |-> "int", v |-> n]
PyStr(s) == [ty |-> "str", v |-> s]
PyList(xs) == [ty |-> "list", v |-> xs]

\* str() of a float kept in tenths: 5 -> "0.5", 10 -> "1.0", -3 -> "-0.3"
FloatStr(n) ==
    LET a == IF n < 0 THEN 0 - n ELSE n
    IN (IF n < 0 THEN "-" ELSE "") \o ToString(a \div 10) \o "."
           \o ToString(a % 10)

RECURSIVE PyRepr(_)
\* repr() of a value, as str() of a list applies it to the elements
PyRepr(x) ==
    IF x.ty = "float" THEN FloatStr(x.v)
    ELSE IF x.ty = "int" THEN ToString(x.v)
    ELSE IF x.ty = "str" THEN "'" \o x.v \o "'"
    ELSE "[" \o Join(", ", [k \in 1..Len(x.v) |-> PyRepr(x.v[k])]) \o "]"

\* the value of a call that raised instead of returning
NoValue == [ty |-> "none", v |-> << >>]

\* str() of a value
PyStrOf(x) == IF x.ty = "str" THEN x.v ELSE PyRepr(x)

-----------------------------------------------------------------------------
(* The wire objects of gen_gmtk_params.py: constructors *)

MC_TYPE_DIAG == "COMPONENT_TYPE_DIAG_GAUSSIAN"
MC_TYPE_GAMMA == "COMPONENT_TYPE_GAMMA"
MC_TYPE_MISSING == "COMPONENT_TYPE_MISSING_FEATURE_SCALED_DIAG_GAUSSIAN"

\* DenseCPT(name, cardinality, prob, parent_card): a scalar parent_card
\* becomes a one-element list, the default -1 is kept
DenseCPT(name, cardinality, prob, parent_card) ==
    [cls |-> "DenseCPT", name |-> name,
     parent_card |-> IF parent_card.ty = "int" /\ parent_card.v = -1
                     THEN parent_card
                     ELSE IF parent_card.ty # "list"
                     THEN PyList(<< parent_card >>)
                     ELSE parent_card,
     cardinality |-> cardinality, prob |-> prob]

\* DeterministicCPT(name, parent_card, cardinality, dt); cardinalities are
\* given as strings, the form generate() joins
DeterministicCPT(name, parent_card, cardinality, dt) ==
    [cls |-> "DeterministicCPT", name |-> name,
     parent_card |-> IF parent_card.ty # "list"
                     THEN PyList(<< parent_card >>)
                     ELSE parent_card,
     cardinality |-> cardinality, dt |-> dt]

\* NameCollection(name, *args): list arguments are spliced in
NameCollection(name, args) ==
    [cls |-> "NameCollection", name |-> name,
     names_in_col |->
        ConcatRange(Len(args), LAMBDA k :
            IF args[k + 1].ty = "list"
            THEN [m \in 1..Len(args[k + 1].v) |-> args[k + 1].v[m].v]
            ELSE << args[k + 1].v >>)]

\* Mean(name, *args)
Mean(name, args) == [cls |-> "Mean", name |-> name, mean_values |-> args]

\* Covar(name, *args)
Covar(name, args) == [cls |-> "Covar", name |-> name, covar_values |-> args]

\* MC(name, dim, type, mean, covar, weights, gamma_shape, gamma_scale)
MC(name, dim, type, mean, covar, gamma_shape, gamma_scale) ==
    [cls |-> "MC", name |-> name, mean |-> mean, covar |-> covar,
     dim |-> dim, type |-> type, weights |-> << >>,
     gamma_shape |-> gamma_shape, gamma_scale |-> gamma_scale]

\* the default arguments mean=Mean('sample_mean'), covar=Mean('sample_covar')
MC_default_mean == Mean("sample_mean", << >>)
MC_default_covar == Mean("sample_covar", << >>)

\* sum(values) of Python starting from the int 0: adding a str or a list
\* raises TypeError
py_sum(values) ==
    IF \E k \in 1..Len(values) : values[k].ty \notin {"float", "int"}
    THEN [exc |-> "TypeError", val |-> 0]
    ELSE [exc |-> "none",
          val |-> LET f[k \in 0..Len(values)] ==
                        IF k = 0 THEN 0
                        ELSE f[k - 1] + (IF values[k].ty = "int"
                                         THEN 10 * values[k].v
                                         ELSE values[k].v)
                  IN f[Len(values)]]

\* DPMF(name, *args) without the check of the sum
DPMF_unchecked(name, args) ==
    [exc |-> "none",
     val |-> [cls |-> "DPMF", name |-> name, dpmf_values |-> args]]

\* DPMF(name, *args): raises unless the values sum to 1.0 (10 tenths)
DPMF(name, args) ==
    LET total == py_sum(args)
    IN IF total.exc # "none"
       THEN [exc |-> total.exc, val |-> [cls |-> "DPMF", name |-> name,
                                          dpmf_values |-> args]]
       ELSE IF total.val # 10
       THEN [exc |-> "ValueError", val |-> [cls |-> "DPMF", name |-> name,
                                            dpmf_values |-> << >>]]
       ELSE [exc |-> "none", val |-> [cls |-> "DPMF", name |-> name,
                                      dpmf_values |-> args]]

\* MX(name, dim, dpmf, components) without the check of the lengths
MX_unchecked(name, dim, dpmf, components) ==
    [exc |-> "none",
     val |-> [cls |-> "MX", name |-> name, dim |-> dim,
              comp |-> IF components.list THEN components.v
                       ELSE << components.v >>,
              dpmf |-> dpmf]]

\* MX(name, dim, dpmf, components): components is [list, v]; a single
\* component is wrapped into a list; raises on a length mismatch
MX(name, dim, dpmf, components) ==
    LET comps == IF components.list THEN components.v
                 ELSE << components.v >>
    IN IF Len(dpmf.dpmf_values) # Len(comps)
       THEN [exc |-> "ValueError", val |-> [cls |-> "MX", name |-> name,
                                            dim |-> dim]]
       ELSE [exc |-> "none",
             val |-> [cls |-> "MX", name |-> name, dim |-> dim,
                      comp |-> comps, dpmf |-> dpmf]]

-----------------------------------------------------------------------------
(* The wire objects: generate(index), the text of one object *)

RECURSIVE DenseCPT_generate_prob(_)
DenseCPT_generate_prob(prob) ==
    IF prob.v[1].ty = "float"
    THEN Join(" ", [k \in 1..Len(prob.v) |-> PyStrOf(prob.v[k])])
    ELSE Join("\n", [k \in 1..Len(prob.v) |->
                        DenseCPT_generate_prob(prob.v[k])])

DenseCPT_generate(o, index) ==
    LET no_parents == o.parent_card.ty = "int"
        num_parents == IF no_parents THEN 0 ELSE Len(o.parent_card.v)
        parent_card_str ==
            IF no_parents THEN << >>
            ELSE [k \in 1..num_parents |-> PyStrOf(o.parent_card.v[k])]
        line == << ToString(index), o.name, ToString(num_parents) >>
                    \o parent_card_str \o << PyStrOf(o.cardinality) >>
    IN Join("\n", << Join(" ", line),
                     DenseCPT_generate_prob(o.prob) \o "\n",
                     "\n" >>)

DeterministicCPT_generate(o, index) ==
    LET cards == [k \in 1..Len(o.parent_card.v) |-> o.parent_card.v[k].v]
                    \o << o.cardinality.v >>
    IN Join("\n", << Join(" ", << ToString(index), o.name >>),
                     ToString(Len(o.parent_card.v)),
                     Join(" ", cards),
                     o.dt,
                     "\n" >>)

NameCollection_generate(o, index) ==
    Join("\n", << Join(" ", << ToString(index), o.name,
                               ToString(Len(o.names_in_col)) >>),
                  Join("\n", o.names_in_col),
                  "\n" >>)

Mean_generate(o, index) ==
    Join(" ", << ToString(index), o.name, ToString(Len(o.mean_values)) >>
              \o [k \in 1..Len(o.mean_values) |-> PyStrOf(o.mean_values[k])]
              \o << "\n" >>)

Covar_generate(o, index) ==
    Join(" ", << ToString(index), o.name, ToString(Len(o.covar_values)) >>
              \o [k \in 1..Len(o.covar_values) |->
                    PyStrOf(o.covar_values[k])]
              \o << "\n" >>)

DPMF_generate(o, index) ==
    Join(" ", << ToString(index), o.name, ToString(Len(o.dpmf_values)) >>
              \o [k \in 1..Len(o.dpmf_values) |-> PyStrOf(o.dpmf_values[k])]
              \o << "\n" >>)

MC_generate(o, index) ==
    Join(" ", << ToString(index), ToString(o.dim) >> \o
        (IF o.type = MC_TYPE_GAMMA
         THEN << o.type, o.gamma_scale, o.gamma_shape >>
         ELSE IF o.type = MC_TYPE_MISSING
         THEN << o.type, o.name, o.mean.name, o.covar.name,
                 "matrix_weightscale_1x1", "\n" >>
         ELSE << o.type, o.name, o.mean.name, o.covar.name, "\n" >>))

MX_generate(o, index) ==
    Join(" ", << ToString(index), ToString(o.dim), o.name,
                 ToString(Len(o.comp)), o.dpmf.name >>
              \o [k \in 1..Len(o.comp) |-> o.comp[k].name]
              \o << "\n" >>)

\* obj.generate(index), dispatched on the class of the object
generate(o, index) ==
    CASE o.cls = "DenseCPT" -> DenseCPT_generate(o, index)
      [] o.cls = "DeterministicCPT" -> DeterministicCPT_generate(o, index)
      [] o.cls = "NameCollection" -> NameCollection_generate(o, index)
      [] o.cls = "Mean" -> Mean_generate(o, index)
      [] o.cls = "Covar" -> Covar_generate(o, index)
      [] o.cls = "DPMF" -> DPMF_generate(o, index)
      [] o.cls = "MC" -> MC_generate(o, index)
      [] o.cls = "MX" -> MX_generate(o, index)

-----------------------------------------------------------------------------
(* OrderedDict: a sequence of items [k |-> key, v |-> value] in insertion   *)
(* order, with at most one item per key                                     *)

od_keys(od) == [i \in 1..Len(od) |-> od[i].k]
od_values(od) == [i \in 1..Len(od) |-> od[i].v]
od_has(od, key) == \E i \in 1..Len(od) : od[i].k = key
od_get(od, key) == od[CHOOSE i \in 1..Len(od) : od[i].k = key].v

\* od[key] = value, moving a re-assigned key to the end
od_set_move_to_end(od, key, value) ==
    SelectSeq(od, LAMBDA it : it.k # key) \o << [k |-> key, v |-> value] >>

\* od[key] = value: a new key is appended, an existing key keeps its place
od_set(od, key, value) ==
    IF od_has(od, key)
    THEN [i \in 1..Len(od) |->
            IF od[i].k = key THEN [k |-> key, v |-> value] ELSE od[i]]
    ELSE Append(od, [k |-> key, v |-> value])

-----------------------------------------------------------------------------
(* gen_gmtk_params.InputMaster *)

InputMaster__init__ ==
    [mean |-> << >>, covar |-> << >>, dense |-> << >>,
     deterministic |-> << >>, dpmf |-> << >>, mc |-> << >>, mx |-> << >>,
     name_collection |-> << >>]

allowed_classes ==
    {"Mean", "Covar", "DeterministicCPT", "DenseCPT", "DPMF", "MC", "MX",
     "NameCollection"}

\* the body of the second loop of update storing a Covar among the means
update_one_covar_as_mean(im, o) ==
    LET name == o.name
        im1 == IF o.cls = "Mean" \/ o.cls = "Covar"
               THEN [im EXCEPT !.mean = od_set(@, name, o)] ELSE im
        im3 == IF o.cls = "DeterministicCPT"
               THEN [im1 EXCEPT !.deterministic = od_set(@, name, o)]
               ELSE im1
        im4 == IF o.cls = "DenseCPT"
               THEN [im3 EXCEPT !.dense = od_set(@, name, o)] ELSE im3
        im5 == IF o.cls = "DPMF"
               THEN [im4 EXCEPT !.dpmf = od_set(@, name, o)] ELSE im4
        im6 == IF o.cls = "MC"
               THEN [im5 EXCEPT !.mc = od_set(@, name, o)] ELSE im5
        im7 == IF o.cls = "MX"
               THEN [im6 EXCEPT !.mx = od_set(@, name, o)] ELSE im6
    IN IF o.cls = "NameCollection"
       THEN [im7 EXCEPT !.name_collection = od_set(@, name, o)] ELSE im7

\* the body of the second loop of update, for one object
update_one(im, o) ==
    LET name == o.name
        im1 == IF o.cls = "Mean"
               THEN [im EXCEPT !.mean = od_set(@, name, o)] ELSE im
        im2 == IF o.cls = "Covar"
               THEN [im1 EXCEPT !.covar = od_set(@, name, o)] ELSE im1
        im3 == IF o.cls = "DeterministicCPT"
               THEN [im2 EXCEPT !.deterministic = od_set(@, name, o)]
               ELSE im2
        im4 == IF o.cls = "DenseCPT"
               THEN [im3 EXCEPT !.dense = od_set(@, name, o)] ELSE im3
        im5 == IF o.cls = "DPMF"
               THEN [im4 EXCEPT !.dpmf = od_set(@, name, o)] ELSE im4
        im6 == IF o.cls = "MC"
               THEN [im5 EXCEPT !.mc = od_set(@, name, o)] ELSE im5
        im7 == IF o.cls = "MX"
               THEN [im6 EXCEPT !.mx = od_set(@, name, o)] ELSE im6
    IN IF o.cls = "NameCollection"
       THEN [im7 EXCEPT !.name_collection = od_set(@, name, o)] ELSE im7

\* update with one loop that checks and stores element by element
update_check_while_storing(im, gmtk_obj) ==
    LET objs == IF gmtk_obj.list THEN gmtk_obj.v ELSE << gmtk_obj.v >>
        step(prev, o) ==
            IF prev.exc # "none" THEN prev
            ELSE IF o.cls \notin allowed_classes
            THEN [exc |-> "ValueError", im |-> prev.im]
            ELSE [exc |-> "none", im |-> update_one(prev.im, o)]
        f[k \in 0..Len(objs)] ==
            IF k = 0 THEN [exc |-> "none", im |-> im]
            ELSE step(f[k - 1], objs[k])
    IN f[Len(objs)]

\* InputMaster.update(gmtk_obj); gmtk_obj is [list |-> BOOLEAN, v |-> ...]:
\* a single object is wrapped into a list, every element is type-checked
\* before any is stored.  Result [exc, im].
update(im, gmtk_obj) ==
    LET objs == IF gmtk_obj.list THEN gmtk_obj.v ELSE << gmtk_obj.v >>
        f[k \in 0..Len(objs)] ==
            IF k = 0 THEN im ELSE update_one(f[k - 1], objs[k])
    IN IF \E k \in 1..Len(objs) : objs[k].cls \notin allowed_classes
       THEN [exc |-> "ValueError", im |-> im]
       ELSE [exc |-> "none", im |-> f[Len(objs)]]

\* input_master.update(obj) for one object of an allowed class
update_obj(im, o) == update(im, [list |-> FALSE, v |-> o]).im

-----------------------------------------------------------------------------
(* InputMaster: the per-kind render methods.  Each of the eight methods has *)
(* the same body over its own mapping and header.                           *)

\* the loop of a render method with the index off by one
render_lines_from_one(od) ==
    [n \in 1..Len(od) |-> generate(od_get(od, od_keys(od)[n]), n)]

\* for key_index in range(len(list(od))):
\*     lines.append(od[list(od)[key_index]].generate(key_index))
render_lines(od) ==
    [n \in 1..Len(od) |-> generate(od_get(od, od_keys(od)[n]), n - 1)]

\* the list a render method builds before joining it: empty when nothing
\* is registered, else the header, the count and one rendering per object
render_parts(od, header) ==
    IF Len(od) = 0
    THEN << >>
    ELSE << header, ToString(Len(od)) \o "\n" >> \o render_lines(od)

\* what a render method returns: the list [] when nothing is registered,
\* else the parts joined by newlines
render(od, header) ==
    IF Len(od) = 0
    THEN PyList(<< >>)
    ELSE PyStr(Join("\n", render_parts(od, header)))

generate_mean(im) == render(im.mean, "MEAN_IN_FILE inline")
generate_covar(im) == render(im.covar, "COVAR_IN_FILE inline")
generate_dense(im) == render(im.dense, "DENSE_CPT_IN_FILE inline")
generate_deterministic(im) ==
    render(im.deterministic, "DETERMINISTIC_CPT_IN_FILE inline")
generate_dpmf(im) == render(im.dpmf, "DPMF_IN_FILE inline")
generate_mc(im) == render(im.mc, "MC_IN_FILE inline")
generate_mx(im) == render(im.mx, "MX_IN_FILE inline")
generate_name_col(im) ==
    render(im.name_collection, "NAME_COLLECTION_IN_FILE inline")

\* attrs_gen with means and name collections exchanged
attrs_gen_means_first(im) ==
    << generate_mean(im), generate_deterministic(im), generate_dense(im),
       generate_name_col(im), generate_covar(im), generate_dpmf(im),
       generate_mc(im), generate_mx(im) >>

\* the list attrs_gen of InputMaster.__str__
attrs_gen(im) ==
    << generate_name_col(im), generate_deterministic(im), generate_dense(im),
       generate_mean(im), generate_covar(im), generate_dpmf(im),
       generate_mc(im), generate_mx(im) >>

\* "".join(block): a string is kept, the empty list gives ""
join_block(block) == IF block.ty = "str" THEN block.v ELSE ""

\* InputMaster.__str__
InputMaster__str__(im) ==
    Join("", [k \in 1..Len(attrs_gen(im)) |-> join_block(attrs_gen(im)[k])])

-----------------------------------------------------------------------------
(* segway_input_master.py: configuration read by the builders *)

\* COVAR_TIED is False exactly when USE_MFSDG is set
COVAR_TIED == ~USE_MFSDG

\* per-track empirical statistics of the run (self.means, self.vars), in
\* tenths: track k has mean k.0 and variance 1.0
self_means == [k \in 1..Len(track_names) |-> 10 * k]
self_vars == [k \in 1..Len(track_names) |-> 10]

\* sqrt(self.vars): the variance 1.0 has the standard deviation 1.0
self_stds == [k \in 1..Len(track_names) |-> 10]

\* each track is its own track group
num_track_groups == Len(track_names)

\* the seeded generator: the p-th number it draws from
\* uniform(-jitter_std_bound, jitter_std_bound), in tenths
RngPeriod == 3
rng_uniform(p) == ((2 * (p % RngPeriod)) % 3) - 1

\* for i in range(n): im = body(im, i), stopping at the first exception;
\* body gives [exc, im]
for_range(n, im0, body(_, _)) ==
    LET iteration(prev, i) ==
            IF prev.exc # "none" THEN prev ELSE body(prev.im, i)
        f[k \in 0..n] ==
            IF k = 0 THEN [exc |-> "none", im |-> im0]
            ELSE iteration(f[k - 1], k - 1)
    IN f[n]

names_of(o) ==
    generate_gmtk_obj_names(o, track_names, num_segs, num_subsegs,
                            distribution, num_mix_components).val

-----------------------------------------------------------------------------
(* ParamSpec.generate_name_collection *)

\* the name groups cut with one group per segment
name_groups_of_per_seg(names) ==
    LET len_name_group == Len(names) \div num_segs
        num_groups == (Len(names) + len_name_group - 1) \div len_name_group
    IN [g \in 1..num_groups |->
            SubSeq(names, (g - 1) * len_name_group + 1,
                   IF g * len_name_group < Len(names)
                   THEN g * len_name_group ELSE Len(names))]

\* [names[i:i + len_name_group] for i in range(0, len(names), len_name_group)]
name_groups_of(names) ==
    LET len_name_group == Len(names) \div Len(track_names)
        num_groups == (Len(names) + len_name_group - 1) \div len_name_group
    IN [g \in 1..num_groups |->
            SubSeq(names, (g - 1) * len_name_group + 1,
                   IF g * len_name_group < Len(names)
                   THEN g * len_name_group ELSE Len(names))]

\* for group_index in range(len(name_groups)): update(NameCollection(...))
name_collection_loop(im, collection_names, name_groups) ==
    for_range(Len(name_groups), im, LAMBDA m, group_index :
        [exc |-> "none",
         im |-> update_obj(m,
            NameCollection(collection_names[group_index + 1],
                << PyList([n \in 1..Len(name_groups[group_index + 1])
                      |-> PyStr(name_groups[group_index + 1][n])])
                >>))])

\* return input_master.generate_name_col(), after the loop result r
name_collection_return(r) ==
    [exc |-> r.exc, im |-> r.im,
     val |-> IF r.exc = "none" THEN generate_name_col(r.im) ELSE NoValue]

generate_name_collection(im) ==
    name_collection_return(
        name_collection_loop(im, names_of("col"),
                             name_groups_of(names_of("mx_name"))))

-----------------------------------------------------------------------------
(* ParamSpec.make_mean_data and generate_mean_objects *)

\* vstack_tile(array_like, num_segs, num_subsegs): tile(a, [S, U, 1]) of a
\* 1-D array of length T has the shape (S, U, T)
vstack_tile(a, ns, nu) == [i \in 1..ns |-> [j \in 1..nu |-> a]]

\* means_tiled + stds_tiled * noise, with noise drawn in C order from the
\* generator at position rs; shape (num_segs, num_subsegs, num_tracks)
make_mean_data(rs) ==
    LET means_tiled == vstack_tile(self_means, num_segs, num_subsegs)
        stds_tiled == vstack_tile(self_stds, num_segs, num_subsegs)
        nt == Len(track_names)
        noise(i, j, k) ==
            rng_uniform(rs + ((i - 1) * num_subsegs + (j - 1)) * nt + (k - 1))
    IN [i \in 1..num_segs |-> [j \in 1..num_subsegs |-> [k \in 1..nt |->
            means_tiled[i][j][k]
                + (stds_tiled[i][j][k] * noise(i, j, k)) \div 10]]]

\* ndarray.tolist() of the (S, U, T) array: a list of S lists of U lists
tolist3(a) ==
    [i \in 1..Len(a) |->
        PyList([j \in 1..Len(a[i]) |->
            PyList([k \in 1..Len(a[i][j]) |-> PyFloat(a[i][j][k])])])]

\* for i in range(len(names)): update(Mean(names[i], means[i]))
mean_loop(im, names, means) ==
    for_range(Len(names), im, LAMBDA m, i :
        IF i + 1 > Len(means)
        THEN [exc |-> "IndexError", im |-> m]
        ELSE [exc |-> "none",
              im |-> update_obj(m, Mean(names[i + 1], << means[i + 1] >>))])

\* return input_master.generate_mean(), after the loop result r; the
\* generator has drawn one number per cell of the array
mean_return(r, rs) ==
    [exc |-> r.exc, im |-> r.im,
     rs |-> (rs + num_segs * num_subsegs * Len(track_names)) % RngPeriod,
     val |-> IF r.exc = "none" THEN generate_mean(r.im) ELSE NoValue]

generate_mean_objects(im, rs) ==
    mean_return(mean_loop(im, names_of("mean"), tolist3(make_mean_data(rs))),
                rs)

-----------------------------------------------------------------------------
(* ParamSpec.generate_covar_objects *)

\* for i in range(len(names)): update(Covar(names[i], covars[i]))
covar_loop(im, names, covars) ==
    for_range(Len(names), im, LAMBDA m, i :
        IF i + 1 > Len(covars)
        THEN [exc |-> "IndexError", im |-> m]
        ELSE [exc |-> "none",
              im |-> update_obj(m, Covar(names[i + 1], << covars[i + 1] >>))])

covar_return(r) ==
    [exc |-> r.exc, im |-> r.im,
     val |-> IF r.exc = "none" THEN generate_covar(r.im) ELSE NoValue]

generate_covar_objects(im) ==
    covar_return(
        covar_loop(im,
                   IF ~COVAR_TIED THEN names_of("covar")
                   ELSE names_of("tied_covar"),
                   [k \in 1..Len(self_vars) |-> PyFloat(self_vars[k])]))

-----------------------------------------------------------------------------
(* ParamSpec.generate_mc_objects *)

\* the norm-like loop pairing every component with the first mean
mc_norm_loop_first_mean(im, names) ==
    LET covars == Repeat(od_values(im.covar), num_segs * num_subsegs)
        means == od_values(im.mean)
    IN for_range(Len(names), im, LAMBDA m, i :
            IF Len(means) = 0 \/ i + 1 > Len(covars)
            THEN [exc |-> "IndexError", im |-> m]
            ELSE [exc |-> "none",
                  im |-> update_obj(m,
                            MC(names[i + 1], 1, "COMPONENT_TYPE_DIAG_GAUSSIAN",
                               means[1], covars[i + 1], "", ""))])

\* the loop of the norm-like branch: the i-th name gets the i-th registered
\* mean and the i-th element of the covariances repeated per (seg, subseg)
mc_norm_loop(im, names) ==
    LET covars == Repeat(od_values(im.covar), num_segs * num_subsegs)
    IN for_range(Len(names), im, LAMBDA m, i :
            IF i + 1 > Len(od_values(m.mean)) \/ i + 1 > Len(covars)
            THEN [exc |-> "IndexError", im |-> m]
            ELSE [exc |-> "none",
                  im |-> update_obj(m,
                            MC(names[i + 1], 1, "COMPONENT_TYPE_DIAG_GAUSSIAN",
                               od_values(m.mean)[i + 1], covars[i + 1],
                               "", ""))])

\* the loop of the gamma branch
mc_gamma_loop(im, names, gamma_scale, gamma_shape) ==
    for_range(Len(names), im, LAMBDA m, i :
        IF i + 1 > Len(gamma_shape) \/ i + 1 > Len(gamma_scale)
        THEN [exc |-> "IndexError", im |-> m]
        ELSE [exc |-> "none",
              im |-> update_obj(m,
                        MC(names[i + 1], 1, "COMPONENT_TYPE_GAMMA",
                           MC_default_mean, MC_default_covar,
                           gamma_shape[i + 1], gamma_scale[i + 1]))])

mc_return(r) ==
    [exc |-> r.exc, im |-> r.im,
     val |-> IF r.exc = "none" THEN generate_mc(r.im) ELSE NoValue]

generate_mc_objects(im) ==
    mc_return(
        IF distribution \in DISTRIBUTIONS_LIKE_NORM
        THEN mc_norm_loop(im, names_of(IF USE_MFSDG THEN "mc_missing"
                                       ELSE "mc_diag"))
        ELSE IF distribution = DISTRIBUTION_GAMMA
        THEN mc_gamma_loop(im, names_of("mc_gamma"), names_of("gammascale"),
                           names_of("gammashape"))
        ELSE [exc |-> "none", im |-> im])

-----------------------------------------------------------------------------
(* ParamSpec.generate_dpmf_objects *)

ROUND_NDIGITS == 12

\* str(round(1.0 / n, ROUND_NDIGITS)) as its list of characters
str_round_inverse(n) ==
    CASE n = 2 -> << "0", ".", "5" >>
      [] n = 4 -> << "0", ".", "2", "5" >>
      [] n = 5 -> << "0", ".", "2" >>
      [] n = 3 -> << "0", "." >> \o [k \in 1..ROUND_NDIGITS |-> "3"]
      [] n = 6 -> << "0", ".", "1" >> \o [k \in 2..ROUND_NDIGITS - 1 |-> "6"]
                     \o << "7" >>

\* DPMF(name, value) followed by update(dpmf_obj); d is the constructor's
\* result
dpmf_update(m, d) ==
    IF d.exc # "none" THEN [exc |-> d.exc, im |-> m]
    ELSE [exc |-> "none", im |-> update_obj(m, d.val)]

\* for i in range(len(names)): update(DPMF(names[i], dpmf_values[i]))
dpmf_loop(im, names, dpmf_values) ==
    for_range(Len(names), im, LAMBDA m, i :
        IF i + 1 > Len(dpmf_values)
        THEN [exc |-> "IndexError", im |-> m]
        ELSE dpmf_update(m, DPMF(names[i + 1],
                                 << PyStr(dpmf_values[i + 1]) >>)))

dpmf_return(r) ==
    [exc |-> r.exc, im |-> r.im,
     val |-> IF r.exc = "none" THEN generate_dpmf(r.im) ELSE NoValue]

dpmf_branch(im, names) ==
    IF num_mix_components = 1
    THEN dpmf_update(im, DPMF(names[1], << PyFloat(10) >>))
    ELSE dpmf_loop(im, names, str_round_inverse(num_mix_components))

generate_dpmf_objects(im) == dpmf_return(dpmf_branch(im, names_of("dpmf")))

-----------------------------------------------------------------------------
(* ParamSpec.generate_mx_objects *)

\* MX(...) followed by update(mx_obj); x is the constructor's result
mx_update(m, x) ==
    IF x.exc # "none" THEN [exc |-> x.exc, im |-> m]
    ELSE [exc |-> "none", im |-> update_obj(m, x.val)]

\* the loop of generate_mx_objects taking the components in reverse
mx_loop_reversed(im, names, dpmf_obj, mc_obj) ==
    for_range(Len(names), im, LAMBDA m, i :
        IF i + 1 > Len(dpmf_obj) \/ i + 1 > Len(mc_obj)
        THEN [exc |-> "IndexError", im |-> m]
        ELSE mx_update(m, MX(names[i + 1], 1, dpmf_obj[i + 1],
                             [list |-> FALSE, v |-> mc_obj[Len(mc_obj) - i]])))

\* for i in range(len(names)): MX(names[i], 1, dpmf_obj[i], mc_obj[i])
mx_loop(im, names, dpmf_obj, mc_obj) ==
    for_range(Len(names), im, LAMBDA m, i :
        IF i + 1 > Len(dpmf_obj) \/ i + 1 > Len(mc_obj)
        THEN [exc |-> "IndexError", im |-> m]
        ELSE mx_update(m, MX(names[i + 1], 1, dpmf_obj[i + 1],
                             [list |-> FALSE, v |-> mc_obj[i + 1]])))

mx_return(r) ==
    [exc |-> r.exc, im |-> r.im,
     val |-> IF r.exc = "none" THEN generate_mx(r.im) ELSE NoValue]

\* generate_mx_objects without the division by len(dpmf_obj)
mx_branch_without_multiple(im, names, dpmf_obj, mc_obj) ==
    mx_loop(im, names, dpmf_obj, mc_obj)

\* multiple = int(len(names) / len(dpmf_obj)); dpmf_obj *= multiple
mx_branch(im, names, dpmf_obj, mc_obj) ==
    IF Len(dpmf_obj) = 0
    THEN [exc |-> "ZeroDivisionError", im |-> im]
    ELSE mx_loop(im, names, Repeat(dpmf_obj, Len(names) \div Len(dpmf_obj)),
                 mc_obj)

generate_mx_objects(im) ==
    mx_return(mx_branch(im, names_of("mx"), od_values(im.dpmf),
                        od_values(im.mc)))

-----------------------------------------------------------------------------
(* InputMasterSaver.make_mapping: one generation pass *)

\* the free-parameter count with the tied and untied terms exchanged
free_params_swapped(dist) ==
    LET fullnum_subsegs == num_segs * num_subsegs
        base == fullnum_subsegs * (fullnum_subsegs - 1) + fullnum_subsegs
    IN IF dist \in DISTRIBUTIONS_LIKE_NORM
       THEN IF COVAR_TIED
            THEN base + (fullnum_subsegs * 2) * num_track_groups
            ELSE base + (fullnum_subsegs + 1) * num_track_groups
       ELSE base + (fullnum_subsegs * 2) * num_track_groups

\* num_free_params as accumulated along the branch taken for dist
free_params(dist) ==
    LET fullnum_subsegs == num_segs * num_subsegs
        base == fullnum_subsegs * (fullnum_subsegs - 1) + fullnum_subsegs
    IN IF dist \in DISTRIBUTIONS_LIKE_NORM
       THEN IF COVAR_TIED
            THEN base + (fullnum_subsegs + 1) * num_track_groups
            ELSE base + (fullnum_subsegs * 2) * num_track_groups
       ELSE base + (fullnum_subsegs * 2) * num_track_groups

\* the norm-like branch of make_mapping after each of its stages; the
\* branch gives [exc, im, rs, mean_spec, covar_spec, mc_spec]
branch_after_mc(mean, covar, mc) ==
    [exc |-> mc.exc, im |-> mc.im, rs |-> mean.rs,
     mean_spec |-> mean.val, covar_spec |-> covar.val, mc_spec |-> mc.val]

branch_after_covar(mean, covar) ==
    IF covar.exc # "none"
    THEN [exc |-> covar.exc, im |-> covar.im, rs |-> mean.rs,
          mean_spec |-> mean.val, covar_spec |-> NoValue, mc_spec |-> NoValue]
    ELSE branch_after_mc(mean, covar, generate_mc_objects(covar.im))

branch_after_mean(mean) ==
    IF mean.exc # "none"
    THEN [exc |-> mean.exc, im |-> mean.im, rs |-> mean.rs,
          mean_spec |-> NoValue, covar_spec |-> NoValue, mc_spec |-> NoValue]
    ELSE branch_after_covar(mean, generate_covar_objects(mean.im))

\* the gamma branch after generate_mc_objects
branch_gamma(mc, rs) ==
    [exc |-> mc.exc, im |-> mc.im, rs |-> rs,
     mean_spec |-> PyStr(""), covar_spec |-> PyStr(""), mc_spec |-> mc.val]

\* the distribution branch with the gamma branch taken for every
\* distribution that is not norm-like
make_mapping_branch_else_gamma(im, rs) ==
    IF distribution \in DISTRIBUTIONS_LIKE_NORM
    THEN branch_after_mean(generate_mean_objects(im, rs))
    ELSE branch_gamma(generate_mc_objects(im), rs)

\* the distribution branch of make_mapping
make_mapping_branch(im, rs) ==
    IF distribution \in DISTRIBUTIONS_LIKE_NORM
    THEN branch_after_mean(generate_mean_objects(im, rs))
    ELSE IF distribution = DISTRIBUTION_GAMMA
    THEN branch_gamma(generate_mc_objects(im), rs)
    ELSE [exc |-> "ValueError", im |-> im, rs |-> rs,
          mean_spec |-> NoValue, covar_spec |-> NoValue, mc_spec |-> NoValue]

\* make_mapping after each of its stages; the result is [exc, im, rs, val],
\* val the mapping returned by locals()
mapping_after_mx(nc, br, dpmf, mx) ==
    IF mx.exc # "none"
    THEN [exc |-> mx.exc, im |-> mx.im, rs |-> br.rs, val |-> NoValue]
    ELSE [exc |-> "none", im |-> mx.im, rs |-> br.rs,
          val |-> [num_free_params |-> free_params(distribution),
                   name_collection_spec |-> nc.val,
                   mean_spec |-> br.mean_spec,
                   covar_spec |-> br.covar_spec,
                   mc_spec |-> br.mc_spec,
                   dpmf_spec |-> dpmf.val,
                   mx_spec |-> mx.val,
                   card_seg |-> num_segs]]

mapping_after_dpmf(nc, br, dpmf) ==
    IF dpmf.exc # "none"
    THEN [exc |-> dpmf.exc, im |-> dpmf.im, rs |-> br.rs, val |-> NoValue]
    ELSE mapping_after_mx(nc, br, dpmf, generate_mx_objects(dpmf.im))

mapping_after_branch(nc, br) ==
    IF br.exc # "none"
    THEN [exc |-> br.exc, im |-> br.im, rs |-> br.rs, val |-> NoValue]
    ELSE mapping_after_dpmf(nc, br, generate_dpmf_objects(br.im))

mapping_after_name_collection(nc, rs) ==
    IF nc.exc # "none"
    THEN [exc |-> nc.exc, im |-> nc.im, rs |-> rs, val |-> NoValue]
    ELSE mapping_after_branch(nc, make_mapping_branch(nc.im, rs))

\* make_mapping with the distribution checked before any helper runs
make_mapping_distribution_first(im, rs) ==
    IF distribution \notin DISTRIBUTIONS_LIKE_NORM \cup {DISTRIBUTION_GAMMA}
    THEN [exc |-> "ValueError", im |-> im, rs |-> rs, val |-> NoValue]
    ELSE mapping_after_name_collection(generate_name_collection(im), rs)

make_mapping(im, rs) ==
    mapping_after_name_collection(generate_name_collection(im), rs)

-----------------------------------------------------------------------------
(* Initial values shared by the specifications *)

MaxCalls == 2

NoRet == [op |-> "", exc |-> "none", val |-> NoValue]

Configs ==
    /\ num_segs \in 1..MaxSegs
    /\ num_subsegs \in 1..MaxSubsegs
    /\ track_names \in TrackLists
    /\ distribution \in Distributions
    /\ num_mix_components \in 1..MaxMix

NoTable ==
    /\ card_seg_countdown = 0
    /\ seg_table = << >>
    /\ seg_countdowns_initial = << >>
    /\ resolution = 1

-----------------------------------------------------------------------------
(* Spec: the generation helpers of one ParamSpec and make_mapping, called   *)
(* on the process-wide registry                                             *)

Init ==
    /\ Configs
    /\ USE_MFSDG \in BOOLEAN
    /\ input_master = InputMaster__init__
    /\ random_state = 0
    /\ obj = ""
    /\ hist = << >>
    /\ ret = NoRet
    /\ NoTable

\* the order in which make_mapping calls the helpers: all six for a
\* norm-like distribution, without mean and covar for gamma
NormOrder ==
    << "generate_name_collection", "generate_mean_objects",
       "generate_covar_objects", "generate_mc_objects",
       "generate_dpmf_objects", "generate_mx_objects" >>
GammaOrder ==
    << "generate_name_collection", "generate_mc_objects",
       "generate_dpmf_objects", "generate_mx_objects" >>

HistOps == [k \in 1..Len(hist) |-> hist[k].op]

IsPrefix(a, b) == Len(a) <= Len(b) /\ a = SubSeq(b, 1, Len(a))

\* calls in any order are explored up to MaxCalls calls; the calls of a pass
\* in the order of make_mapping are explored to the end of the pass
MayCall(op) ==
    \/ Len(hist) < MaxCalls
    \/ IsPrefix(Append(HistOps, op), NormOrder)
    \/ IsPrefix(Append(HistOps, op), GammaOrder)

\* the effect of a call named op with the result r = [exc, im, val]
Called(op, r) ==
    /\ MayCall(op)
    /\ input_master' = r.im
    /\ hist' = Append(hist, [op |-> op, exc |-> r.exc])
    /\ ret' = [op |-> op, exc |-> r.exc, val |-> r.val]
    /\ UNCHANGED <<cfgVars, obj, tableVars>>

GenerateNameCollection ==
    \E r \in {generate_name_collection(input_master)} :
        /\ Called("generate_name_collection", r)
        /\ UNCHANGED random_state

GenerateMeanObjects ==
    \E r \in {generate_mean_objects(input_master, random_state)} :
        /\ Called("generate_mean_objects", r)
        /\ random_state' = r.rs

GenerateCovarObjects ==
    \E r \in {generate_covar_objects(input_master)} :
        /\ Called("generate_covar_objects", r)
        /\ UNCHANGED random_state

GenerateMcObjects ==
    \E r \in {generate_mc_objects(input_master)} :
        /\ Called("generate_mc_objects", r)
        /\ UNCHANGED random_state

GenerateDpmfObjects ==
    \E r \in {generate_dpmf_objects(input_master)} :
        /\ Called("generate_dpmf_objects", r)
        /\ UNCHANGED random_state

GenerateMxObjects ==
    \E r \in {generate_mx_objects(input_master)} :
        /\ Called("generate_mx_objects", r)
        /\ UNCHANGED random_state

MakeMapping ==
    \E r \in {make_mapping(input_master, random_state)} :
        /\ Called("make_mapping", r)
        /\ random_state' = r.rs

Next ==
    \/ GenerateNameCollection
    \/ GenerateMeanObjects
    \/ GenerateCovarObjects
    \/ GenerateMcObjects
    \/ GenerateDpmfObjects
    \/ GenerateMxObjects
    \/ MakeMapping

Spec == Init /\ [][Next]_vars

-----------------------------------------------------------------------------
(* SpecNames: generate_gmtk_obj_names applied once to bounded inputs *)

\* the kinds passed as obj: the twelve tags and some that are not tags
ObjInputs ==
    {"mx", "mc_diag", "mc_gamma", "mc_missing", "mean", "covar", "col",
     "mx_name", "dpmf", "gammascale", "gammashape", "tied_covar",
     "", "MX", "dirichlet", "real_mat"}

InitNames ==
    /\ Configs
    /\ USE_MFSDG = FALSE
    /\ input_master = InputMaster__init__
    /\ random_state = 0
    /\ obj \in ObjInputs
    /\ hist = << >>
    /\ ret = NoRet
    /\ NoTable

GenerateGmtkObjNames ==
    /\ hist = << >>
    /\ LET r == generate_gmtk_obj_names(obj, track_names, num_segs,
                    num_subsegs, distribution, num_mix_components)
       IN /\ ret' = [op |-> "generate_gmtk_obj_names", exc |-> r.exc,
                     val |-> r.val]
          /\ hist' = << [op |-> "generate_gmtk_obj_names", exc |-> r.exc] >>
    /\ UNCHANGED <<cfgVars, input_master, random_state, obj, tableVars>>

NextNames == GenerateGmtkObjNames

SpecNames == InitNames /\ [][NextNames]_vars

-----------------------------------------------------------------------------
(* Claims about generate_gmtk_obj_names (SpecNames) *)

NamesCalled == ret.op = "generate_gmtk_obj_names"

\* <prefix>_seg<i>_subseg<j>_<track>
CellName(prefix, i, j, track) ==
    prefix \o "_seg" \o ToString(i) \o "_subseg" \o ToString(j) \o "_"
        \o track

TwelveTags ==
    {"mx", "mc_diag", "mc_gamma", "mc_missing", "mean", "covar", "col",
     "mx_name", "dpmf", "gammascale", "gammashape", "tied_covar"}

\* C8: generate_gmtk_obj_names raises ValueError and returns no names for
\* every kind that is not one of the twelve tags, and raises nothing for
\* any of the twelve.
C8_UnknownKindRaises ==
    NamesCalled =>
        /\ obj \notin TwelveTags => ret.exc = "ValueError" /\ ret.val = << >>
        /\ obj \in TwelveTags => ret.exc = "none"

C8_Witness == NamesCalled /\ obj = "dirichlet" /\ ret.exc = "ValueError"

\* the kinds of the general branch under the current configuration
GeneralKinds ==
    {"mx", "mean", "gammascale", "gammashape", "mc_gamma", "mc_diag"}
        \cup (IF num_mix_components > 1 THEN {"dpmf"} ELSE {})

\* C9: for the kinds of the general branch the result has exactly
\* num_segs*num_subsegs*len(track_names) names in seg-outer, subseg-middle,
\* track-inner order: position (i*num_subsegs + j)*len(track_names) + k
\* holds <kind>_seg<i>_subseg<j>_<track_k>, with the prefix
\* mc_<distribution> for mc_diag.
C9_GeneralBranchOrder ==
    (NamesCalled /\ obj \in GeneralKinds) =>
        LET nt == Len(track_names)
            prefix == IF obj = "mc_diag" THEN "mc_" \o distribution ELSE obj
        IN /\ ret.exc = "none"
           /\ Len(ret.val) = num_segs * num_subsegs * nt
           /\ \A i \in 0..num_segs - 1 : \A j \in 0..num_subsegs - 1 :
                \A k \in 0..nt - 1 :
                    ret.val[(i * num_subsegs + j) * nt + k + 1]
                        = CellName(prefix, i, j, track_names[k + 1])

C9_Witness ==
    /\ NamesCalled /\ obj = "mc_diag" /\ ret.exc = "none"
    /\ num_segs = 2 /\ num_subsegs = 2 /\ Len(track_names) = 2
    /\ ret.val[7] = "mc_" \o distribution \o "_seg1_subseg1_t1"

\* C10: for mx_name the track is iterated outermost, then seg, then subseg:
\* position (k*num_segs + i)*num_subsegs + j holds
\* mx_seg<i>_subseg<j>_<track_k>; the list holds the same names as the list
\* for kind mx, in a different order whenever there are at least two tracks
\* and num_segs*num_subsegs >= 2.
C10_MxNameTrackOuter ==
    (NamesCalled /\ obj = "mx_name") =>
        LET nt == Len(track_names)
            mx == generate_gmtk_obj_names("mx", track_names, num_segs,
                      num_subsegs, distribution, num_mix_components).val
        IN /\ ret.exc = "none"
           /\ Len(ret.val) = nt * num_segs * num_subsegs
           /\ \A k \in 0..nt - 1 : \A i \in 0..num_segs - 1 :
                \A j \in 0..num_subsegs - 1 :
                    ret.val[(k * num_segs + i) * num_subsegs + j + 1]
                        = CellName("mx", i, j, track_names[k + 1])
           /\ Len(mx) = Len(ret.val)
           /\ Range(mx) = Range(ret.val)
           /\ Cardinality(Range(ret.val)) = Len(ret.val)
           /\ (nt >= 2 /\ num_segs * num_subsegs >= 2) => mx # ret.val

C10_Witness ==
    /\ NamesCalled /\ obj = "mx_name" /\ ret.exc = "none"
    /\ Len(track_names) = 2 /\ num_segs = 2 /\ num_subsegs = 1
    /\ ret.val = << "mx_seg0_subseg0_t1", "mx_seg1_subseg0_t1",
                    "mx_seg0_subseg0_t2", "mx_seg1_subseg0_t2" >>

-----------------------------------------------------------------------------
(* SpecRegistry: InputMaster.update and the render methods applied to a     *)
(* small universe of wire objects                                           *)

MaxUpdates == 2

MeanA1 == Mean("a", << PyFloat(10) >>)
MeanA2 == Mean("a", << PyFloat(20), PyFloat(5) >>)
MeanB == Mean("b", << PyFloat(10) >>)
CovarA == Covar("a", << PyFloat(10) >>)
DpmfA == DPMF("a", << PyFloat(5), PyFloat(5) >>).val
DpmfB == DPMF("b", << PyFloat(10) >>).val
McA == MC("a", 1, MC_TYPE_DIAG, MeanA1, CovarA, "", "")
McB == MC("b", 1, MC_TYPE_GAMMA, MC_default_mean, MC_default_covar,
          "gammashape_b", "gammascale_b")
MxA == MX("a", 1, DpmfA, [list |-> TRUE, v |-> << McA, McB >>]).val
MxB == MX("b", 1, DpmfB, [list |-> FALSE, v |-> McA]).val
ColA == NameCollection("a", << PyStr("a"), PyList(<< PyStr("b") >>) >>)
DenseA == DenseCPT("a", PyInt(2), PyList(<< PyFloat(5), PyFloat(5) >>),
                   PyInt(-1))
DenseB == DenseCPT("b", PyInt(2),
                   PyList(<< PyList(<< PyFloat(0), PyFloat(10) >>),
                             PyList(<< PyFloat(10), PyFloat(0) >>) >>),
                   PyInt(2))
DetA == DeterministicCPT("a", PyStr("2"), PyStr("3"), "map_a")

\* something that is no wire object (a str, None, ...)
NotGmtk == [cls |-> "str"]

\* the objects and the lists update is called with
UpdateObjects ==
    {MeanA1, MeanA2, MeanB, CovarA, DpmfA, McA, MxA, MxB, ColA, DenseA,
     DenseB, DetA, NotGmtk}

UpdateLists ==
    {<< MeanB, MeanA2 >>,
     << CovarA, NotGmtk, MeanB >>,
     << MxA, McB, DpmfB, CovarA, MeanA1, DenseA, DetA, ColA >>}

InitRegistry ==
    /\ num_segs = 1 /\ num_subsegs = 1 /\ track_names = << "t1" >>
    /\ distribution = DISTRIBUTION_NORM /\ num_mix_components = 1
    /\ USE_MFSDG = FALSE
    /\ input_master = InputMaster__init__
    /\ random_state = 0
    /\ obj = ""
    /\ hist = << >>
    /\ ret = NoRet
    /\ NoTable

\* input_master.update(arg)
Update(arg) ==
    /\ Len(hist) < MaxUpdates
    /\ LET r == update(input_master, arg)
       IN /\ input_master' = r.im
          /\ hist' = Append(hist,
                [op |-> "update", exc |-> r.exc,
                 arg |-> IF arg.list THEN arg.v ELSE << arg.v >>])
          /\ ret' = [op |-> "update", exc |-> r.exc, val |-> NoValue]
    /\ UNCHANGED <<cfgVars, random_state, obj, tableVars>>

RenderMethods ==
    {"generate_mean", "generate_covar", "generate_dense",
     "generate_deterministic", "generate_dpmf", "generate_mc", "generate_mx",
     "generate_name_col"}

call_render(im, method) ==
    CASE method = "generate_mean" -> generate_mean(im)
      [] method = "generate_covar" -> generate_covar(im)
      [] method = "generate_dense" -> generate_dense(im)
      [] method = "generate_deterministic" -> generate_deterministic(im)
      [] method = "generate_dpmf" -> generate_dpmf(im)
      [] method = "generate_mc" -> generate_mc(im)
      [] method = "generate_mx" -> generate_mx(im)
      [] method = "generate_name_col" -> generate_name_col(im)

\* one of the per-kind render methods is called
Render(method) ==
    /\ ret' = [op |-> method, exc |-> "none",
               val |-> call_render(input_master, method)]
    /\ UNCHANGED <<cfgVars, input_master, random_state, obj, hist, tableVars>>

\* str(input_master)
Str ==
    /\ ret' = [op |-> "__str__", exc |-> "none",
               val |-> PyStr(InputMaster__str__(input_master))]
    /\ UNCHANGED <<cfgVars, input_master, random_state, obj, hist, tableVars>>

NextRegistry ==
    \/ \E o \in UpdateObjects : Update([list |-> FALSE, v |-> o])
    \/ \E l \in UpdateLists : Update([list |-> TRUE, v |-> l])
    \/ \E method \in RenderMethods : Render(method)
    \/ Str

SpecRegistry == InitRegistry /\ [][NextRegistry]_vars

-----------------------------------------------------------------------------
(* Claims about the registry (SpecRegistry) *)

\* the objects stored by the successful update calls so far, in call order
Stored ==
    ConcatRange(Len(hist), LAMBDA h :
        IF hist[h + 1].op = "update" /\ hist[h + 1].exc = "none"
        THEN hist[h + 1].arg ELSE << >>)

\* those of one class
Log(cls) == SelectSeq(Stored, LAMBDA o : o.cls = cls)

\* the distinct names of a class in the order of their first registration
FirstOrder(cls) ==
    LET L == Log(cls)
        f[k \in 0..Len(L)] ==
            IF k = 0 THEN << >>
            ELSE IF L[k].name \in Range(f[k - 1]) THEN f[k - 1]
            ELSE Append(f[k - 1], L[k].name)
    IN f[Len(L)]

\* the object registered last under a name
LastObj(cls, name) ==
    LET L == Log(cls)
        last == CHOOSE k \in 1..Len(L) :
                    /\ L[k].name = name
                    /\ \A m \in k + 1..Len(L) : L[m].name # name
    IN L[last]

\* the mapping of input_master that belongs to a class
MappingOf(cls) ==
    CASE cls = "Mean" -> input_master.mean
      [] cls = "Covar" -> input_master.covar
      [] cls = "DenseCPT" -> input_master.dense
      [] cls = "DeterministicCPT" -> input_master.deterministic
      [] cls = "DPMF" -> input_master.dpmf
      [] cls = "MC" -> input_master.mc
      [] cls = "MX" -> input_master.mx
      [] cls = "NameCollection" -> input_master.name_collection

WireClasses ==
    {"Mean", "Covar", "DenseCPT", "DeterministicCPT", "DPMF", "MC", "MX",
     "NameCollection"}

\* C5: re-registering a name replaces the stored object and keeps the name
\* at its original position: after any sequence of update calls the names of
\* a kind are in first-registration order, each holds the object registered
\* last under it, and the rendering of the n-th name carries the index n-1.
C5_ReRegisterKeepsPosition ==
    \A cls \in WireClasses :
        LET od == MappingOf(cls)
            first == FirstOrder(cls)
        IN /\ od_keys(od) = first
           /\ \A n \in 1..Len(first) :
                /\ od[n].v = LastObj(cls, first[n])
                /\ render_lines(od)[n]
                        = generate(LastObj(cls, first[n]), n - 1)

C5_Witness ==
    /\ Log("Mean") = << MeanA1, MeanB, MeanA2 >>
    /\ od_keys(input_master.mean) = << "a", "b" >>
    /\ od_get(input_master.mean, "a") = MeanA2

\* the class and the header of each render method
RenderClass(method) ==
    CASE method = "generate_mean" -> "Mean"
      [] method = "generate_covar" -> "Covar"
      [] method = "generate_dense" -> "DenseCPT"
      [] method = "generate_deterministic" -> "DeterministicCPT"
      [] method = "generate_dpmf" -> "DPMF"
      [] method = "generate_mc" -> "MC"
      [] method = "generate_mx" -> "MX"
      [] method = "generate_name_col" -> "NameCollection"

HeaderOf(cls) ==
    CASE cls = "Mean" -> "MEAN_IN_FILE inline"
      [] cls = "Covar" -> "COVAR_IN_FILE inline"
      [] cls = "DenseCPT" -> "DENSE_CPT_IN_FILE inline"
      [] cls = "DeterministicCPT" -> "DETERMINISTIC_CPT_IN_FILE inline"
      [] cls = "DPMF" -> "DPMF_IN_FILE inline"
      [] cls = "MC" -> "MC_IN_FILE inline"
      [] cls = "MX" -> "MX_IN_FILE inline"
      [] cls = "NameCollection" -> "NAME_COLLECTION_IN_FILE inline"

\* the block of a class as the claims describe it: the header, the number
\* of distinct registered names, then one rendering per name in
\* first-registration order with the indices 0, 1, ...
ExpectedParts(cls) ==
    LET first == FirstOrder(cls)
    IN << HeaderOf(cls), ToString(Cardinality(Range(first))) \o "\n" >>
        \o [n \in 1..Len(first) |-> generate(LastObj(cls, first[n]), n - 1)]

ExpectedText(cls) ==
    IF Log(cls) = << >> THEN "" ELSE Join("\n", ExpectedParts(cls))

\* C6: a per-kind render method gives no output when no object of the kind
\* is registered; otherwise the header "<KIND>_IN_FILE inline", the count of
\* distinct registered names and one rendering per registered object in
\* insertion order with the indices 0 .. count-1.
C6_RenderBlock ==
    ret.op \in RenderMethods =>
        LET cls == RenderClass(ret.op)
        IN IF Len(Log(cls)) = 0
           THEN ret.val.ty = "list" /\ Len(ret.val.v) = 0
           ELSE ret.val.ty = "str" /\ ret.val.v = ExpectedText(cls)

C6_Witness ==
    /\ ret.op = "generate_mean"
    /\ Log("Mean") = << MeanA1, MeanB, MeanA2 >>
    /\ ret.val.ty = "str"

\* C7: the full document is the concatenation of the per-kind blocks in the
\* order name collections, deterministic CPTs, dense CPTs, means,
\* covariances, DPMFs, mixture components, mixtures, whatever the order of
\* registration was.
C7_DocumentOrder ==
    ret.op = "__str__" =>
        ret.val.v = ExpectedText("NameCollection")
                        \o ExpectedText("DeterministicCPT")
                        \o ExpectedText("DenseCPT")
                        \o ExpectedText("Mean")
                        \o ExpectedText("Covar")
                        \o ExpectedText("DPMF")
                        \o ExpectedText("MC")
                        \o ExpectedText("MX")

\* the document of a registry filled in the reverse of the document order
C7_Witness ==
    /\ ret.op = "__str__"
    /\ Len(Stored) >= 8
    /\ Stored[1].cls = "MX" /\ Stored[5].cls = "Mean"
    /\ Stored[8].cls = "NameCollection"

\* C13: update places each object into the mapping of its own kind only
\* and raises ValueError when given an object of any other type.
C13_UpdateDispatch ==
    /\ \A h \in 1..Len(hist) :
            hist[h].op = "update" =>
                /\ hist[h].exc = "ValueError"
                    <=> \E k \in 1..Len(hist[h].arg) :
                            hist[h].arg[k].cls \notin WireClasses
                /\ hist[h].exc \in {"none", "ValueError"}
    /\ \A k \in 1..Len(Stored) :
            /\ od_has(MappingOf(Stored[k].cls), Stored[k].name)
            /\ od_get(MappingOf(Stored[k].cls), Stored[k].name).cls
                    = Stored[k].cls
    /\ \A cls \in WireClasses :
            \A n \in 1..Len(MappingOf(cls)) :
                /\ MappingOf(cls)[n].v.cls = cls
                /\ MappingOf(cls)[n].k = MappingOf(cls)[n].v.name
                /\ \E k \in 1..Len(Stored) : Stored[k] = MappingOf(cls)[n].v

\* one call with a list holding an object of every kind
C13_Witness ==
    /\ Len(hist) = 1 /\ hist[1].op = "update" /\ hist[1].exc = "none"
    /\ Len(hist[1].arg) = 8
    /\ \A cls \in WireClasses : Len(MappingOf(cls)) = 1
    /\ od_get(input_master.covar, "a") = CovarA
    /\ od_get(input_master.mean, "a") = MeanA1

\* an object that is no wire object is refused
C13_Rejected ==
    /\ Len(hist) = 1 /\ hist[1].exc = "ValueError"
    /\ hist[1].arg = << NotGmtk >>
    /\ input_master = InputMaster__init__

\* C25: update is all-or-nothing for a list argument: if any element of the
\* list is not an allowed wire-object type the call fails and all eight
\* per-kind mappings are unchanged, also for the valid elements that come
\* before the invalid one in the list.
C25_UpdateAllOrNothing ==
    [][(hist' # hist /\ ret'.op = "update") =>
          LET arg == hist'[Len(hist')].arg
          IN /\ (\E k \in 1..Len(arg) : arg[k].cls \notin WireClasses)
                    => ret'.exc = "ValueError"
             /\ ret'.exc # "none" => input_master' = input_master]_vars

\* the list [CovarA, not a wire object, MeanB] is refused and CovarA, which
\* precedes the refused element, is not stored
C25_Witness ==
    /\ Len(hist) = 1 /\ hist[1].op = "update"
    /\ hist[1].exc = "ValueError"
    /\ Len(hist[1].arg) = 3 /\ hist[1].arg[1] = CovarA
    /\ hist[1].arg[2] = NotGmtk
    /\ input_master = InputMaster__init__

-----------------------------------------------------------------------------
(* Exact arithmetic on probabilities: a rational is << numerator,           *)
(* denominator >> in lowest terms with a positive denominator               *)

RECURSIVE GCD(_, _)
GCD(a, b) == IF b = 0 THEN a ELSE GCD(b, a % b)

Rat(n, d) == LET g == GCD(n, d) IN IF n = 0 THEN << 0, 1 >>
                                   ELSE << n \div g, d \div g >>
RatMul(a, b) == Rat(a[1] * b[1], a[2] * b[2])
RatSub(a, b) == Rat(a[1] * b[2] - b[1] * a[2], a[2] * b[2])
RatAdd(a, b) == Rat(a[1] * b[2] + b[1] * a[2], a[2] * b[2])
RatOne == << 1, 1 >>
RatZero == << 0, 1 >>

-----------------------------------------------------------------------------
(* segway_input_master.py: the duration table of TableParamSpec *)

CARD_SEGTRANSITION == 3
LEN_SEG_EXPECTED == 100000
LEN_SUBSEG_EXPECTED == 100

\* length / (1 + length)
prob_transition_from_expected_len(length) == Rat(length, 1 + length)

\* a numpy array: its shape and its elements in C order
ndarray(shape, data) == [shape |-> shape, data |-> data]

\* make_zero_diagonal_table(length): array([1.0]) for the length 1, else a
\* length x length array filled with (1.0 - 0.0) / (length - 1) whose
\* diagonal is then set to 0.0
make_zero_diagonal_table(length) ==
    IF length = 1
    THEN ndarray(<< 1 >>, << RatOne >>)
    ELSE LET prob_self_self == RatZero
             prob_self_other ==
                RatMul(RatSub(RatOne, prob_self_self), Rat(1, length - 1))
         IN ndarray(<< length, length >>,
                    [k \in 1..length * length |->
                        IF (k - 1) \div length = (k - 1) % length
                        THEN prob_self_self ELSE prob_self_other])

\* << prob_self_self, prob_self_other >> for an expected length
calc_prob_transition(length) ==
    LET length_scaled == length \div resolution
        prob_self_self == prob_transition_from_expected_len(length_scaled)
    IN << prob_self_self, RatSub(RatOne, prob_self_self) >>

probs_force_transition == << RatZero, RatZero, RatOne >>

probs_allow_transition ==
    LET seg == calc_prob_transition(LEN_SEG_EXPECTED)
        subseg == calc_prob_transition(LEN_SUBSEG_EXPECTED)
    IN << RatMul(seg[1], subseg[1]), RatMul(seg[1], subseg[2]), seg[2] >>

probs_prevent_transition ==
    LET subseg == calc_prob_transition(LEN_SUBSEG_EXPECTED)
    IN << subseg[1], subseg[2], RatZero >>

\* a row of the array: written is FALSE for a row of empty() that no
\* assignment has reached
Unwritten == [written |-> FALSE, p |-> << >>]
Row(p) == [written |-> TRUE, p |-> p]

\* the bound x of a slice over n rows: a negative bound counts from the
\* end, and bounds are clipped to 0 .. n
slice_bound(x, n) ==
    IF x < 0 THEN (IF x + n < 0 THEN 0 ELSE x + n)
    ELSE IF x > n THEN n ELSE x

\* res[lo:hi, labels] = p, for a set of labels
assign_rows(res, lo, hi, labels, p) ==
    LET n == Len(res)
        a == slice_bound(lo, n)
        b == slice_bound(hi, n)
    IN [c \in 1..n |->
            IF a <= c - 1 /\ c - 1 < b
            THEN [l \in 1..Len(res[c]) |->
                    IF l \in labels THEN Row(p) ELSE res[c][l]]
            ELSE res[c]]

\* where(~(ends == 0)) and where(ends == 0)
labels_with_maximum == {l \in 1..num_segs : seg_table[l].end # 0}
labels_without_maximum == {l \in 1..num_segs : seg_table[l].end = 0}

\* the two assignments for the labels without a maximum, with the vectors
\* exchanged
assign_without_maximum_swapped(res) ==
    LET r0 == assign_rows(res, 0, 1, labels_without_maximum,
                          probs_prevent_transition)
    IN assign_rows(r0, 1, Len(res), labels_without_maximum,
                   probs_allow_transition)

\* res[0, labels_without_maximum] = probs_allow_transition
\* res[1:, labels_without_maximum] = probs_prevent_transition
assign_without_maximum(res) ==
    LET r0 == assign_rows(res, 0, 1, labels_without_maximum,
                          probs_allow_transition)
    IN assign_rows(r0, 1, Len(res), labels_without_maximum,
                   probs_prevent_transition)

\* seg_countdown_initial - minimum + 1 for one label
seg_countdown_allow(label) ==
    LET minimum == seg_table[label].start \div seg_table[label].step
    IN seg_countdowns_initial[label] - minimum + 1

\* the loop body with the prevent rows starting one row later
assign_allow_prevent_gap(res, label) ==
    LET allow == seg_countdown_allow(label)
        r1 == assign_rows(res, 1, allow, {label}, probs_allow_transition)
    IN assign_rows(r1, allow + 1, Len(res), {label},
                   probs_prevent_transition)

\* the body of the loop over the labels with a maximum
\* res[1:seg_countdown_allow, label] = probs_allow_transition
\* res[seg_countdown_allow:, label] = probs_prevent_transition
assign_allow_prevent(res, label) ==
    LET allow == seg_countdown_allow(label)
        r1 == assign_rows(res, 1, allow, {label}, probs_allow_transition)
    IN assign_rows(r1, allow, Len(res), {label}, probs_prevent_transition)

\* the table res[countdown + 1][label]: a (card_seg_countdown, num_segs, 3)
\* array, rows indexed from 1 here
make_dense_cpt_segCountDown_seg_segTransition ==
    LET empty == [c \in 1..card_seg_countdown |->
                    [l \in 1..num_segs |-> Unwritten]]
        r1 == assign_without_maximum(empty)
        r2 == assign_rows(r1, 0, 1, labels_with_maximum,
                          probs_force_transition)
        \* for label in labels_with_maximum, in ascending order
        f[l \in 0..num_segs] ==
            IF l = 0 THEN r2
            ELSE IF l \in labels_with_maximum
            THEN assign_allow_prevent(f[l - 1], l)
            ELSE f[l - 1]
    IN f[num_segs]

-----------------------------------------------------------------------------
(* SpecTable: the duration table built once from bounded inputs *)

MaxCard == 3
MaxLength == 3

\* rows of the segment length table: [start, end, step]; end = 0 means no
\* maximum
SegRows ==
    {[start |-> 0, end |-> 0, step |-> 1],
     [start |-> 2, end |-> 0, step |-> 1],
     [start |-> 0, end |-> 4, step |-> 1],
     [start |-> 1, end |-> 4, step |-> 1],
     [start |-> 3, end |-> 4, step |-> 2],
     [start |-> 3, end |-> 4, step |-> 1]}

Resolutions == {1, 100, 1000}

InitTable ==
    /\ num_segs \in 1..MaxSegs
    /\ num_subsegs = 1 /\ track_names = << "t1" >>
    /\ distribution = DISTRIBUTION_NORM /\ num_mix_components = 1
    /\ USE_MFSDG = FALSE
    /\ input_master = InputMaster__init__
    /\ random_state = 0
    /\ obj = ""
    /\ hist = << >>
    /\ ret = NoRet
    /\ card_seg_countdown \in 1..MaxCard
    /\ seg_table \in [1..num_segs -> SegRows]
    /\ seg_countdowns_initial \in [1..num_segs -> 0..card_seg_countdown - 1]
    /\ resolution \in Resolutions

MakeDenseCptSegCountDown ==
    /\ hist = << >>
    /\ ret' = [op |-> "make_dense_cpt_segCountDown_seg_segTransition",
               exc |-> "none",
               val |-> make_dense_cpt_segCountDown_seg_segTransition]
    /\ hist' = << [op |-> "make_dense_cpt_segCountDown_seg_segTransition",
                   exc |-> "none"] >>
    /\ UNCHANGED <<cfgVars, input_master, random_state, obj, tableVars>>

\* make_zero_diagonal_table(length), as DenseCPTParamSpec calls it with
\* num_segs or num_subsegs
MakeZeroDiagonalTable(length) ==
    /\ hist = << >>
    /\ ret' = [op |-> "make_zero_diagonal_table", exc |-> "none",
               val |-> make_zero_diagonal_table(length)]
    /\ hist' = << [op |-> "make_zero_diagonal_table", exc |-> "none",
                   arg |-> length] >>
    /\ UNCHANGED <<cfgVars, input_master, random_state, obj, tableVars>>

NextTable ==
    \/ MakeDenseCptSegCountDown
    \/ \E length \in 1..MaxLength : MakeZeroDiagonalTable(length)

SpecTable == InitTable /\ [][NextTable]_vars

-----------------------------------------------------------------------------
(* Claims about the duration table (SpecTable) *)

TableBuilt == ret.op = "make_dense_cpt_segCountDown_seg_segTransition"

\* C3: for every label with a maximum duration (non-zero end column),
\* countdown row 0 equals [0.0, 0.0, 1.0], for every initial countdown value
\* and every start/step value of the label.
C3_ForceAtRowZero ==
    TableBuilt =>
        \A l \in 1..num_segs :
            seg_table[l].end # 0 =>
                ret.val[1][l].p = << << 0, 1 >>, << 0, 1 >>, << 1, 1 >> >>

\* C3 on a label whose seg_countdown_allow is at least 1
C3_Reached ==
    /\ TableBuilt
    /\ \E l \in 1..num_segs :
        /\ seg_table[l].end # 0
        /\ seg_countdowns_initial[l]
                - (seg_table[l].start \div seg_table[l].step) + 1 >= 1
        /\ ret.val[1][l].p = << << 0, 1 >>, << 0, 1 >>, << 1, 1 >> >>

\* the vectors named by the claims, from the self-transition probability
\* L/(1+L) of the scaled expected lengths
ClaimSegSelf ==
    Rat(LEN_SEG_EXPECTED \div resolution,
        1 + LEN_SEG_EXPECTED \div resolution)
ClaimSubsegSelf ==
    Rat(LEN_SUBSEG_EXPECTED \div resolution,
        1 + LEN_SUBSEG_EXPECTED \div resolution)
ClaimAllow ==
    << RatMul(ClaimSegSelf, ClaimSubsegSelf),
       RatMul(ClaimSegSelf, RatSub(RatOne, ClaimSubsegSelf)),
       RatSub(RatOne, ClaimSegSelf) >>
ClaimPrevent ==
    << ClaimSubsegSelf, RatSub(RatOne, ClaimSubsegSelf), RatZero >>

\* C4: for every label without a maximum duration (end column 0), countdown
\* row 0 equals probs_allow_transition = [seg_self*subseg_self,
\* seg_self*subseg_other, seg_other] and every countdown row
\* 1..card_seg_countdown-1 equals probs_prevent_transition = [subseg_self,
\* subseg_other, 0.0].
C4_NoMaximumRows ==
    TableBuilt =>
        \A l \in 1..num_segs :
            seg_table[l].end = 0 =>
                /\ ret.val[1][l] = Row(ClaimAllow)
                /\ \A c \in 2..card_seg_countdown :
                        ret.val[c][l] = Row(ClaimPrevent)

C4_Witness ==
    /\ TableBuilt
    /\ card_seg_countdown = 3 /\ num_segs = 2 /\ resolution = 1
    /\ seg_table[1].end = 0 /\ seg_table[2].end # 0
    /\ ret.val[1][1].p[1] = << 10000000, 10100101 >>
    /\ ret.val[3][1].p = << << 100, 101 >>, << 1, 101 >>, << 0, 1 >> >>

\* C20: for every label with a maximum duration and with
\* a = seg_countdowns_initial[label] - (start[label] // step[label]) + 1,
\* every countdown row r with 1 <= r < a equals probs_allow_transition and
\* every row r with a <= r < card_seg_countdown equals
\* probs_prevent_transition.  Row 0, which C3 is about, is left out.
C20_AllowPreventRows ==
    TableBuilt =>
        \A l \in 1..num_segs :
            seg_table[l].end # 0 =>
                LET a == seg_countdowns_initial[l]
                            - (seg_table[l].start \div seg_table[l].step) + 1
                IN \A r \in 1..card_seg_countdown - 1 :
                    /\ r < a => ret.val[r + 1][l] = Row(ClaimAllow)
                    /\ a <= r => ret.val[r + 1][l] = Row(ClaimPrevent)

\* C20 on a label with a = 2 of three rows: row 1 allows, row 2 prevents
C20_Reached ==
    /\ TableBuilt
    /\ card_seg_countdown = 3
    /\ seg_table[1] = [start |-> 0, end |-> 4, step |-> 1]
    /\ seg_countdowns_initial[1] = 1
    /\ ret.val[2][1] = Row(ClaimAllow)
    /\ ret.val[3][1] = Row(ClaimPrevent)

LCM(a, b) == (a \div GCD(a, b)) * b

\* the sum of the three entries of a probability vector, over the least
\* common denominator
VectorSum(p) ==
    LET d == LCM(LCM(p[1][2], p[2][2]), p[3][2])
    IN Rat(p[1][1] * (d \div p[1][2]) + p[2][1] * (d \div p[2][2])
                + p[3][1] * (d \div p[3][2]), d)

\* C27: every (countdown, seg) row of the duration table is assigned by the
\* builder and equals one of probs_allow_transition,
\* probs_prevent_transition or probs_force_transition, each of which sums
\* to 1 in exact arithmetic, for every seg_table, seg_countdowns_initial and
\* card_seg_countdown >= 1, also when seg_countdown_allow is <= 0 or
\* >= card_seg_countdown.
C27_EveryRowAssigned ==
    TableBuilt =>
        /\ VectorSum(probs_allow_transition) = RatOne
        /\ VectorSum(probs_prevent_transition) = RatOne
        /\ VectorSum(probs_force_transition) = RatOne
        /\ Len(ret.val) = card_seg_countdown
        /\ \A c \in 1..card_seg_countdown :
            /\ Len(ret.val[c]) = num_segs
            /\ \A l \in 1..num_segs :
                /\ ret.val[c][l].written
                /\ ret.val[c][l].p \in {probs_allow_transition,
                                        probs_prevent_transition,
                                        probs_force_transition}
                /\ VectorSum(ret.val[c][l].p) = RatOne

\* a table with one label whose seg_countdown_allow is negative and one
\* whose seg_countdown_allow is card_seg_countdown
C27_Witness ==
    /\ TableBuilt
    /\ card_seg_countdown = 3 /\ num_segs = 2
    /\ seg_table[1].end # 0 /\ seg_countdown_allow(1) = -1
    /\ seg_table[2].end # 0 /\ seg_countdown_allow(2) = 3
    /\ \A c \in 1..3 : \A l \in 1..2 : ret.val[c][l].written
    /\ ret.val[3][2].p = probs_allow_transition

-----------------------------------------------------------------------------
(* Claims about the generation helpers (Spec) *)

NormLike == distribution \in {"norm", "asinh_norm"}

Cells ==
    (0..num_segs - 1) \X (0..num_subsegs - 1) \X (1..Len(track_names))

\* the helpers were called in the required order on the empty registry, at
\* least up to generate_mc_objects
RanInOrderToMc == Len(hist) >= 4 /\ IsPrefix(HistOps, NormOrder)

\* C1: when the helpers run in the required order on an empty registry with
\* a norm-like distribution, then for every seg i, subseg j and track t the
\* registered MC named mc_<distribution>_seg<i>_subseg<j>_<t> references
\* the Mean named mean_seg<i>_subseg<j>_<t> and the Covar named covar_<t>.
C1_McPairing ==
    (RanInOrderToMc /\ NormLike) =>
        \A c \in Cells :
            LET t == track_names[c[3]]
                name == CellName("mc_" \o distribution, c[1], c[2], t)
            IN /\ od_has(input_master.mc, name)
               /\ od_get(input_master.mc, name).mean.name
                    = CellName("mean", c[1], c[2], t)
               /\ od_get(input_master.mc, name).covar.name = "covar_" \o t

\* C1 in a configuration in which every helper returns
C1_Reached ==
    /\ RanInOrderToMc /\ NormLike
    /\ \A k \in 1..Len(hist) : hist[k].exc = "none"
    /\ num_segs = 2
    /\ od_has(input_master.mc, "mc_norm_seg1_subseg0_t1")
    /\ od_get(input_master.mc, "mc_norm_seg1_subseg0_t1").mean.name
            = "mean_seg1_subseg0_t1"

\* a full pass was made on the empty registry: make_mapping returned, or
\* the helpers were called in its order and every one returned
FullPass ==
    /\ \A k \in 1..Len(hist) : hist[k].exc = "none"
    /\ \/ HistOps = << "make_mapping" >>
       \/ HistOps = NormOrder
       \/ HistOps = GammaOrder /\ distribution = "gamma"

\* the component built for the cell (i, j, t), told by what it refers to
IsMcOfCell(mc, i, j, t) ==
    IF NormLike
    THEN /\ mc.mean.name = CellName("mean", i, j, t)
         /\ mc.covar.name = "covar_" \o t
         /\ ~USE_MFSDG => mc.name = CellName("mc_" \o distribution, i, j, t)
    ELSE /\ mc.gamma_shape = CellName("gammashape", i, j, t)
         /\ mc.gamma_scale = CellName("gammascale", i, j, t)
         /\ mc.name = CellName("mc_gamma", i, j, t)

\* C2: with num_mix_components = 1, after a full pass in the required order
\* on an empty registry exactly one DPMF, named dpmf_always, is registered,
\* and there is one MX per (seg, subseg, track), named
\* mx_seg<i>_subseg<j>_<track>, each referencing dpmf_always and exactly one
\* component, the MC of the same (seg, subseg, track).
C2_SingleDpmfOneMxPerCell ==
    (FullPass /\ num_mix_components = 1) =>
        /\ od_keys(input_master.dpmf) = << "dpmf_always" >>
        /\ Len(input_master.mx) = Cardinality(Cells)
        /\ \A c \in Cells :
            LET t == track_names[c[3]]
                name == CellName("mx", c[1], c[2], t)
            IN /\ od_has(input_master.mx, name)
               /\ LET mx == od_get(input_master.mx, name)
                  IN /\ mx.dpmf.name = "dpmf_always"
                     /\ mx.dpmf = od_get(input_master.dpmf, "dpmf_always")
                     /\ Len(mx.comp) = 1
                     /\ IsMcOfCell(mx.comp[1], c[1], c[2], t)
                     /\ od_has(input_master.mc, mx.comp[1].name)
                     /\ od_get(input_master.mc, mx.comp[1].name) = mx.comp[1]

C2_Witness ==
    /\ FullPass /\ num_mix_components = 1
    /\ distribution = "gamma"
    /\ num_segs = 2 /\ num_subsegs = 2 /\ Len(track_names) = 2
    /\ Len(input_master.mx) = 8
    /\ od_get(input_master.mx, "mx_seg1_subseg0_t2").comp[1].name
            = "mc_gamma_seg1_subseg0_t2"

\* C15: make_mapping raises ValueError whenever the distribution is neither
\* norm-like (norm, asinh_norm) nor gamma, and raises no ValueError for
\* those three values.
C15_UnsupportedDistribution ==
    ret.op = "make_mapping" =>
        (ret.exc = "ValueError"
            <=> distribution \notin {"norm", "asinh_norm", "gamma"})

C15_Witness ==
    /\ hist = << [op |-> "make_mapping", exc |-> "ValueError"] >>
    /\ distribution = "poisson"
    /\ ret.val = NoValue
    /\ Len(input_master.name_collection) = Len(track_names)

\* a supported distribution passes the check
C15_Supported ==
    /\ hist = << [op |-> "make_mapping", exc |-> "none"] >>
    /\ distribution = "asinh_norm"

\* C16: with F = num_segs * num_subsegs, the free-parameter count returned
\* by make_mapping is F*(F-1) + F + (F+1)*num_track_groups for a norm-like
\* distribution with tied covariance, and F*(F-1) + F + 2*F*num_track_groups
\* for a norm-like distribution with untied covariance or for gamma.
C16_FreeParams ==
    (ret.op = "make_mapping" /\ ret.exc = "none") =>
        LET F == num_segs * num_subsegs
        IN ret.val.num_free_params
            = IF NormLike /\ COVAR_TIED
              THEN F * (F - 1) + F + (F + 1) * num_track_groups
              ELSE F * (F - 1) + F + 2 * F * num_track_groups

\* num_segs = 2, num_subsegs = 1, one track group, tied: 7
C16_Witness ==
    /\ hist = << [op |-> "make_mapping", exc |-> "none"] >>
    /\ distribution = "norm" /\ COVAR_TIED
    /\ num_segs = 2 /\ num_subsegs = 1 /\ num_track_groups = 1
    /\ ret.val.num_free_params = 7

\* the untied norm-like count and the gamma count
C16_Untied ==
    /\ hist = << [op |-> "make_mapping", exc |-> "none"] >>
    /\ distribution = "norm" /\ ~COVAR_TIED
    /\ ret.val.num_free_params = 3

C16_Gamma ==
    /\ hist = << [op |-> "make_mapping", exc |-> "none"] >>
    /\ distribution = "gamma"
    /\ num_segs = 2 /\ num_subsegs = 2 /\ num_track_groups = 2
    /\ ret.val.num_free_params = 32

\* generate_mean_objects was the only call, made on the empty registry
MeanStageOnly ==
    Len(hist) = 1 /\ hist[1].op = "generate_mean_objects"

\* C17: for every configuration generate_mean_objects on an empty registry
\* completes and registers exactly num_segs * num_subsegs * num_tracks Mean
\* objects, one under each name mean_seg<i>_subseg<j>_<track>, each holding
\* the single jittered mean value of its own (seg, subseg, track) cell.
C17_MeanPerCell ==
    MeanStageOnly =>
        /\ ret.exc = "none"
        /\ Len(input_master.mean) = Cardinality(Cells)
        /\ \A c \in Cells :
            LET name == CellName("mean", c[1], c[2], track_names[c[3]])
            IN /\ od_has(input_master.mean, name)
               /\ od_get(input_master.mean, name).mean_values
                    = << PyFloat(make_mean_data(0)[c[1] + 1][c[2] + 1][c[3]]) >>

\* with one subseg and one track the call completes and registers one Mean
\* per seg under the generated names
C17_Reached ==
    /\ MeanStageOnly /\ ret.exc = "none"
    /\ num_segs = 2 /\ num_subsegs = 1 /\ Len(track_names) = 1
    /\ od_keys(input_master.mean)
            = << "mean_seg0_subseg0_t1", "mean_seg1_subseg0_t1" >>

\* C18: for num_mix_components > 1 generate_dpmf_objects completes and
\* registers one DPMF under each of the generated names
\* dpmf_seg<i>_subseg<j>_<track>, each with values summing to 1.0, so that
\* the following generate_mx_objects builds one MX per (seg, subseg, track).
C18_DpmfPerCell ==
    /\ (ret.op = "generate_dpmf_objects" /\ num_mix_components > 1) =>
        /\ ret.exc = "none"
        /\ \A c \in Cells :
            LET name == CellName("dpmf", c[1], c[2], track_names[c[3]])
            IN /\ od_has(input_master.dpmf, name)
               /\ py_sum(od_get(input_master.dpmf, name).dpmf_values)
                    = [exc |-> "none", val |-> 10]
    /\ (ret.op = "generate_mx_objects" /\ num_mix_components > 1
            /\ HistOps \in {NormOrder, GammaOrder}) =>
        /\ ret.exc = "none"
        /\ Len(input_master.mx) = Cardinality(Cells)

\* what the call does for num_mix_components = 2: the first value handed to
\* DPMF is a character of "0.5", and nothing is registered
C18_Reached ==
    /\ hist = << [op |-> "generate_dpmf_objects", exc |-> "TypeError"] >>
    /\ num_mix_components = 2
    /\ input_master.dpmf = << >>

\* a step that calls op while nothing is registered
CalledOnEmptyRegistry(op) ==
    /\ input_master = InputMaster__init__
    /\ hist' = Append(hist, [op |-> op, exc |-> ret'.exc])

McBeforeMeans ==
    /\ distribution \in DISTRIBUTIONS_LIKE_NORM
    /\ CalledOnEmptyRegistry("generate_mc_objects")

MxBeforeComponents == CalledOnEmptyRegistry("generate_mx_objects")

\* C19 as stated: generate_mc_objects (norm-like) or generate_mx_objects
\* called on an empty registry, before the stages they read from, completes
\* and registers (mispaired) objects.
C19_CompletesMispaired ==
    [][(McBeforeMeans \/ MxBeforeComponents) =>
          /\ ret'.exc = "none"
          /\ input_master' # InputMaster__init__]_vars

\* C19 as the code behaves: on an empty registry generate_mc_objects with a
\* norm-like distribution raises IndexError at the first mean,
\* generate_mx_objects raises ZeroDivisionError at len(dpmf_obj), and
\* neither registers anything.
C19_OutOfOrderRaises ==
    [][/\ McBeforeMeans =>
            ret'.exc = "IndexError" /\ input_master' = InputMaster__init__
       /\ MxBeforeComponents =>
            ret'.exc = "ZeroDivisionError"
                /\ input_master' = InputMaster__init__]_vars

C19_Witness ==
    /\ Len(hist) = 2
    /\ hist[1] = [op |-> "generate_mx_objects", exc |-> "ZeroDivisionError"]
    /\ hist[2] = [op |-> "generate_mc_objects", exc |-> "IndexError"]
    /\ distribution \in DISTRIBUTIONS_LIKE_NORM
    /\ input_master = InputMaster__init__

\* the members of the collection of track k
MembersOf(k) ==
    od_get(input_master.name_collection,
           "collection_seg_" \o track_names[k]).names_in_col

\* C24: generate_name_collection registers exactly one NameCollection per
\* track, named collection_seg_<track>, whose members are the
\* num_segs*num_subsegs names mx_seg<i>_subseg<j>_<track> of that track in
\* seg-outer order; every member is the name of an MX that
\* generate_mx_objects registers for the same configuration, and every such
\* MX name is a member of exactly one collection.
C24_CollectionPerTrack ==
    /\ ret.op = "generate_name_collection" =>
        /\ ret.exc = "none"
        /\ od_keys(input_master.name_collection)
            = [k \in 1..Len(track_names) |->
                    "collection_seg_" \o track_names[k]]
        /\ \A k \in 1..Len(track_names) :
            /\ MembersOf(k)
                = [m \in 1..num_segs * num_subsegs |->
                    CellName("mx", (m - 1) \div num_subsegs,
                             (m - 1) % num_subsegs, track_names[k])]
            /\ Range(MembersOf(k)) \subseteq Range(names_of("mx"))
        /\ \A n \in Range(names_of("mx")) :
            Cardinality({k \in 1..Len(track_names) :
                            n \in Range(MembersOf(k))}) = 1
    /\ FullPass =>
        Range(od_keys(input_master.mx))
            = UNION {Range(MembersOf(k)) : k \in 1..Len(track_names)}

C24_Witness ==
    /\ ret.op = "generate_name_collection"
    /\ num_segs = 2 /\ num_subsegs = 2 /\ track_names = << "t1", "t2" >>
    /\ od_keys(input_master.name_collection)
            = << "collection_seg_t1", "collection_seg_t2" >>
    /\ MembersOf(2) = << "mx_seg0_subseg0_t2", "mx_seg0_subseg1_t2",
                         "mx_seg1_subseg0_t2", "mx_seg1_subseg1_t2" >>

MakeMappingOnUnsupported ==
    /\ hist' # hist /\ ret'.op = "make_mapping"
    /\ distribution \notin DISTRIBUTIONS_LIKE_NORM \cup {DISTRIBUTION_GAMMA}

\* C26: when make_mapping fails on an unsupported distribution, the failure
\* comes after generate_name_collection has run: the registry then holds
\* the name collections of the pass and no Mean, Covar, MC, DPMF or MX of
\* the pass, so the failed pass does not leave the registry as it found it.
C26_FailureAfterNameCollection ==
    [][MakeMappingOnUnsupported =>
          /\ ret'.exc = "ValueError"
          /\ input_master' = generate_name_collection(input_master).im
          /\ od_keys(input_master'.name_collection)
                = od_keys(input_master.name_collection)
                    \o SelectSeq(names_of("col"),
                         LAMBDA n : ~od_has(input_master.name_collection, n))
          /\ input_master'.mean = input_master.mean
          /\ input_master'.covar = input_master.covar
          /\ input_master'.mc = input_master.mc
          /\ input_master'.dpmf = input_master.dpmf
          /\ input_master'.mx = input_master.mx
          /\ input_master.name_collection = << >>
                => input_master' # input_master]_vars

\* the failed pass on the empty registry leaves its collections behind
C26_Witness ==
    /\ hist = << [op |-> "make_mapping", exc |-> "ValueError"] >>
    /\ distribution = "poisson"
    /\ track_names = << "t1", "t2" >>
    /\ od_keys(input_master.name_collection)
            = << "collection_seg_t1", "collection_seg_t2" >>
    /\ input_master.mean = << >> /\ input_master.mx = << >>

-----------------------------------------------------------------------------
(* SpecWire: one wire object is constructed from bounded arguments and      *)
(* registered, input_master.update(DPMF(name, *args)) or                    *)
(* input_master.update(MX(name, 1, dpmf, components))                       *)

MaxValues == 3

\* the sequences over S of length 0 .. n
SeqsUpTo(S, n) == UNION {[1..k -> S] : k \in 0..n}

\* argument lists of DPMF: 0.0, 0.4, 0.5 and 1.0, whose float sums are exact
\* whenever they reach 1.0
DpmfArgs ==
    SeqsUpTo({PyFloat(0), PyFloat(4), PyFloat(5), PyFloat(10)}, MaxValues)

\* the DPMF objects that exist: those the constructor returned
DpmfPool ==
    {DPMF("d", args).val : args \in {a \in DpmfArgs : DPMF("d", a).exc = "none"}}

\* the components argument of MX: a list of components (list) or one
\* component that is no list, kept in v[1]
MxComponents ==
    {[list |-> FALSE, v |-> << c >>] : c \in {McA, McB}}
        \cup {[list |-> TRUE, v |-> l] : l \in SeqsUpTo({McA, McB}, MaxValues)}

components_of(c) ==
    IF c.list THEN [list |-> TRUE, v |-> c.v]
    ELSE [list |-> FALSE, v |-> c.v[1]]

NoDpmf == [cls |-> "DPMF", name |-> "", dpmf_values |-> << >>]

WireInputs ==
    {[fn |-> "DPMF", args |-> a, dpmf |-> NoDpmf,
      components |-> [list |-> TRUE, v |-> << >>]] : a \in DpmfArgs}
        \cup {[fn |-> "MX", args |-> << >>, dpmf |-> d, components |-> c] :
                d \in DpmfPool, c \in MxComponents}

InitWire ==
    /\ num_segs = 1 /\ num_subsegs = 1 /\ track_names = << "t1" >>
    /\ distribution = DISTRIBUTION_NORM /\ num_mix_components = 1
    /\ USE_MFSDG = FALSE
    /\ input_master = InputMaster__init__
    /\ random_state = 0
    /\ obj \in WireInputs
    /\ hist = << >>
    /\ ret = NoRet
    /\ NoTable

\* input_master.update(r.val) unless the constructor raised
Constructed(op, r) ==
    /\ hist = << >>
    /\ input_master' = IF r.exc = "none" THEN update_obj(input_master, r.val)
                       ELSE input_master
    /\ hist' = Append(hist, [op |-> op, exc |-> r.exc])
    /\ ret' = [op |-> op, exc |-> r.exc, val |-> NoValue]
    /\ UNCHANGED <<cfgVars, random_state, obj, tableVars>>

NewDPMF ==
    /\ obj.fn = "DPMF"
    /\ Constructed("DPMF", DPMF("d", obj.args))

NewMX ==
    /\ obj.fn = "MX"
    /\ Constructed("MX", MX("m", 1, obj.dpmf, components_of(obj.components)))

NextWire == NewDPMF \/ NewMX

SpecWire == InitWire /\ [][NextWire]_vars

-----------------------------------------------------------------------------
(* Claims about the constructors (SpecWire) *)

\* the sum of a list of numbers, in tenths
SumTenths(values) ==
    LET f[k \in 0..Len(values)] ==
            IF k = 0 THEN 0
            ELSE f[k - 1] + (IF values[k].ty = "int" THEN 10 * values[k].v
                             ELSE values[k].v)
    IN f[Len(values)]

\* C11: constructing a DPMF succeeds exactly when the values sum to 1.0 and
\* raises ValueError otherwise; no DPMF whose values do not sum to 1.0 is
\* ever registered.
C11_DpmfSumsToOne ==
    /\ ret.op = "DPMF" =>
        /\ ret.exc = "none" <=> SumTenths(obj.args) = 10
        /\ ret.exc # "none" => ret.exc = "ValueError"
        /\ ret.exc = "none" <=> od_has(input_master.dpmf, "d")
    /\ \A k \in 1..Len(input_master.dpmf) :
            SumTenths(input_master.dpmf[k].v.dpmf_values) = 10

C11_Witness ==
    /\ ret.op = "DPMF" /\ ret.exc = "none"
    /\ obj.args = << PyFloat(5), PyFloat(5) >>
    /\ od_get(input_master.dpmf, "d").dpmf_values = obj.args

\* the same for the values 0.4 and 0.5 of the end-to-end scenario
C11_Rejected ==
    /\ ret.op = "DPMF" /\ ret.exc = "ValueError"
    /\ obj.args = << PyFloat(4), PyFloat(5) >>
    /\ input_master.dpmf = << >>

\* the number of components an MX is given
NumComponents(components) ==
    IF components.list THEN Len(components.v) ELSE 1

\* C12: constructing an MX raises ValueError exactly when the number of
\* values of its DPMF differs from its number of components, a single
\* component that is no list counting as one; every MX that exists has as
\* many components as its DPMF has values.
C12_MxComponentCount ==
    /\ ret.op = "MX" =>
        /\ ret.exc = "ValueError"
            <=> Len(obj.dpmf.dpmf_values) # NumComponents(obj.components)
        /\ ret.exc \in {"none", "ValueError"}
        /\ ret.exc = "none" <=> od_has(input_master.mx, "m")
    /\ \A k \in 1..Len(input_master.mx) :
            Len(input_master.mx[k].v.comp)
                = Len(input_master.mx[k].v.dpmf.dpmf_values)

C12_Witness ==
    /\ ret.op = "MX" /\ ret.exc = "ValueError"
    /\ Len(obj.dpmf.dpmf_values) = 2
    /\ obj.components.list /\ Len(obj.components.v) = 1
    /\ input_master.mx = << >>

\* a single component that is no list is accepted with a DPMF of one value
C12_SingleComponent ==
    /\ ret.op = "MX" /\ ret.exc = "none"
    /\ ~obj.components.list
    /\ od_get(input_master.mx, "m").comp = obj.components.v

-----------------------------------------------------------------------------
(* Claims about make_zero_diagonal_table (SpecTable) *)

ZeroDiagonalBuilt == ret.op = "make_zero_diagonal_table"

\* the sum of the n elements of row i of an n x n array
RowSum(a, i, n) ==
    LET f[k \in 0..n] ==
            IF k = 0 THEN RatZero
            ELSE RatAdd(f[k - 1], a.data[(i - 1) * n + k])
    IN f[n]

\* C14: make_zero_diagonal_table(n) returns an n-by-n row-stochastic
\* matrix for every n >= 1: [[1.0]] for n = 1, and for n >= 2 a matrix with
\* 0 on the diagonal and 1/(n-1) in every other entry; every row sums to 1.
C14_ZeroDiagonalTable ==
    ZeroDiagonalBuilt =>
        LET n == hist[1].arg
        IN /\ ret.val.shape = << n, n >>
           /\ Len(ret.val.data) = n * n
           /\ \A i, j \in 1..n :
                ret.val.data[(i - 1) * n + j]
                    = IF n = 1 THEN RatOne
                      ELSE IF i = j THEN RatZero ELSE Rat(1, n - 1)
           /\ \A i \in 1..n : RowSum(ret.val, i, n) = RatOne

\* C14 for a length of at least 2
C14_Reached ==
    /\ ZeroDiagonalBuilt /\ hist[1].arg = 3
    /\ ret.val.shape = << 3, 3 >>
    /\ ret.val.data[1] = RatZero /\ ret.val.data[2] = << 1, 2 >>
    /\ RowSum(ret.val, 2, 3) = RatOne

-----------------------------------------------------------------------------
(* SpecYield: the generators DenseCPTParamSpec.generate_objects and          *)
(* DTParamSpec.generate_objects, advanced one next() at a time.  obj is the  *)
(* builder whose generator runs; hist holds one entry per next().            *)

SUPERVISION_UNSUPERVISED == 0
SUPERVISION_SEMISUPERVISED == 1
SUPERVISION_SUPERVISED == 2

NAME_SEGCOUNTDOWN_SEG_SEGTRANSITION == "segCountDown_seg_segTransition"

\* attributes copied from the saver by copy_attrs
type_name == obj.type_name
use_dinucleotide == obj.use_dinucleotide
len_seg_strength == obj.len_seg_strength
supervision_type == obj.supervision_type

\* the product of the entries of a shape
shape_size(shape) ==
    LET f[k \in 0..Len(shape)] == IF k = 0 THEN 1 ELSE f[k - 1] * shape[k]
    IN f[Len(shape)]

\* fill_array(scalar, shape): an array of that shape holding the scalar
fill_array(scalar, shape) ==
    ndarray(shape, [k \in 1..shape_size(shape) |-> scalar])

\* vstack_tile(array_like, n, 1) = tile(array_like, [n, 1, 1]): the array,
\* taken as 3-D with leading axes of length 1, repeated n times along the
\* first axis
vstack_tile_rows(a, n) ==
    LET lead == [k \in 1..3 - Len(a.shape) |-> 1] \o a.shape
    IN ndarray(<< n * lead[1], lead[2], lead[3] >>,
               [k \in 1..n * Len(a.data) |->
                    a.data[((k - 1) % Len(a.data)) + 1]])

\* TableParamSpec.make_dirichlet_name
make_dirichlet_name(name) == "dirichlet_" \o name

\* TableParamSpec.make_table_spec: the header "<name> <ndim> <shape...>",
\* the extra rows and the rows of the array, kept as the fields of the text
TableParamSpec_make_table_spec(name, table, ndim, extra_rows) ==
    [name |-> name, ndim |-> ndim, shape |-> table.shape,
     extra_rows |-> extra_rows, table |-> table.data]

\* DenseCPTParamSpec.make_table_spec; table is [is_array, a]: a list has no
\* attribute ndim
make_table_spec(name, table, dirichlet) ==
    IF ~table.is_array
    THEN [exc |-> "AttributeError", val |-> NoValue]
    ELSE [exc |-> "none",
          val |-> TableParamSpec_make_table_spec(name, table.a,
                    Len(table.a.shape) - 1,
                    IF dirichlet
                    THEN << "DirichletTable " \o make_dirichlet_name(name) >>
                    ELSE << >>)]

an_array(a) == [is_array |-> TRUE, a |-> a]
a_list(rows) == [is_array |-> FALSE, a |-> rows]

make_dense_cpt_start_seg_spec ==
    make_table_spec("start_seg",
        an_array(fill_array(Rat(1, num_segs), << num_segs >>)), FALSE)

make_dense_cpt_seg_subseg_spec ==
    make_table_spec("seg_subseg",
        an_array(fill_array(Rat(1, num_subsegs),
                            << num_segs, num_subsegs >>)), FALSE)

make_dense_cpt_seg_seg_spec ==
    make_table_spec("seg_seg",
        an_array(make_zero_diagonal_table(num_segs)), FALSE)

make_dense_cpt_seg_subseg_subseg_spec ==
    make_table_spec("seg_subseg_subseg",
        an_array(vstack_tile_rows(make_zero_diagonal_table(num_subsegs),
                                  num_segs)), FALSE)

\* the (card_seg_countdown, num_segs, 3) array of the duration table in C
\* order; a cell of empty() that was never assigned is << 0, 0 >>
countdown_array(res) ==
    ndarray(<< card_seg_countdown, num_segs, CARD_SEGTRANSITION >>,
            [k \in 1..card_seg_countdown * num_segs * CARD_SEGTRANSITION |->
                LET c == ((k - 1) \div (num_segs * CARD_SEGTRANSITION)) + 1
                    l == (((k - 1) \div CARD_SEGTRANSITION) % num_segs) + 1
                    t == ((k - 1) % CARD_SEGTRANSITION) + 1
                IN IF res[c][l].written THEN res[c][l].p[t]
                   ELSE << 0, 0 >>])

make_dense_cpt_segCountDown_seg_segTransition_spec ==
    make_table_spec(NAME_SEGCOUNTDOWN_SEG_SEGTRANSITION,
        an_array(countdown_array(
            make_dense_cpt_segCountDown_seg_segTransition)),
        len_seg_strength > 0)

\* random_state.uniform(): the p-th number the generator draws from [0, 1)
rng_uniform01(p) == Rat(2 * (p % RngPeriod) + 1, 10)

\* one row of the dinucleotide table, drawn at position rs of the generator
make_dinucleotide_table_row(rs) ==
    LET gc == rng_uniform01(rs)
        at == RatSub(RatOne, gc)
        a == RatMul(at, Rat(1, 2))
        c == RatMul(gc, Rat(1, 2))
        g == RatSub(gc, c)
        t == RatSub(RatSub(RatSub(RatOne, a), c), g)
        acgt == << a, c, g, t >>
    IN [k \in 1..16 |->
            RatMul(acgt[((k - 1) \div 4) + 1], acgt[((k - 1) % 4) + 1])]

\* the list of one row per segment is handed to make_table_spec as it is
make_dense_cpt_seg_dinucleotide_spec(rs) ==
    make_table_spec("seg_dinucleotide",
        a_list([seg_index \in 1..num_segs |->
                    make_dinucleotide_table_row(rs + seg_index - 1)]),
        FALSE)

StopIteration == [exc |-> "StopIteration", val |-> NoValue]

\* the k-th next() of DenseCPTParamSpec.generate_objects
DenseCPTParamSpec_generate_objects(k, rs) ==
    IF k = 1 THEN make_dense_cpt_start_seg_spec
    ELSE IF k = 2 THEN make_dense_cpt_seg_subseg_spec
    ELSE IF k = 3 THEN make_dense_cpt_seg_seg_spec
    ELSE IF k = 4 THEN make_dense_cpt_seg_subseg_subseg_spec
    ELSE IF k = 5 THEN make_dense_cpt_segCountDown_seg_segTransition_spec
    ELSE IF k = 6 /\ use_dinucleotide
    THEN make_dense_cpt_seg_dinucleotide_spec(rs)
    ELSE StopIteration

\* data_string(name): the literal contents of the packaged resource
data_string(name) == [resource |-> name, tree |-> ""]

\* resource_substitute(resourcename)(tree=tree)
resource_substitute(resourcename, tree) ==
    [resource |-> resourcename, tree |-> tree]

make_segCountDown_tree_spec(resourcename) ==
    LET header == << ToString(num_segs) >>
                    \o [k \in 1..num_segs - 1 |-> ToString(k - 1)]
                    \o << "default" >>
        lines == << Join(" ", header) >>
                    \o [k \in 1..Len(seg_countdowns_initial) |->
                          "    -1 " \o ToString(seg_countdowns_initial[k])]
    IN resource_substitute(resourcename, Join("\n", lines))

make_map_seg_segCountDown_dt_spec ==
    make_segCountDown_tree_spec("map_seg_segCountDown.dt.tmpl")

make_map_segTransition_ruler_seg_segCountDown_segCountDown_dt_spec ==
    make_segCountDown_tree_spec(
        "map_segTransition_ruler_seg_segCountDown_segCountDown.dt.tmpl")

yielded(v) == [exc |-> "none", val |-> v]

\* the supervision branch without its assertion
supervision_branch_unasserted(k) ==
    IF supervision_type = SUPERVISION_SEMISUPERVISED /\ k = 5
    THEN yielded(data_string(
            "map_supervisionLabel_seg_alwaysTrue_semisupervised.dt.txt"))
    ELSE IF supervision_type = SUPERVISION_SUPERVISED /\ k = 5
    THEN yielded(data_string(
            "map_supervisionLabel_seg_alwaysTrue_supervised.dt.txt"))
    ELSE StopIteration

\* the part of DTParamSpec.generate_objects after the fourth yield
supervision_branch(k) ==
    IF supervision_type = SUPERVISION_SEMISUPERVISED
    THEN IF k = 5
         THEN yielded(data_string(
            "map_supervisionLabel_seg_alwaysTrue_semisupervised.dt.txt"))
         ELSE StopIteration
    ELSE IF supervision_type = SUPERVISION_SUPERVISED
    THEN IF k = 5
         THEN yielded(data_string(
            "map_supervisionLabel_seg_alwaysTrue_supervised.dt.txt"))
         ELSE StopIteration
    ELSE IF supervision_type = SUPERVISION_UNSUPERVISED
    THEN StopIteration
    ELSE [exc |-> "AssertionError", val |-> NoValue]

\* the k-th next() of DTParamSpec.generate_objects
DTParamSpec_generate_objects(k) ==
    IF k = 1 THEN yielded(data_string("map_frameIndex_ruler.dt.txt"))
    ELSE IF k = 2 THEN yielded(make_map_seg_segCountDown_dt_spec)
    ELSE IF k = 3
    THEN yielded(
        make_map_segTransition_ruler_seg_segCountDown_segCountDown_dt_spec)
    ELSE IF k = 4 THEN yielded(data_string("map_seg_subseg_obs.dt.txt"))
    ELSE supervision_branch(k)

\* the builders whose generators are run
DenseBuilders ==
    [type_name : {"DENSE_CPT"}, use_dinucleotide : BOOLEAN,
     len_seg_strength : {0, 1},
     supervision_type : {SUPERVISION_UNSUPERVISED}]

DTBuilders ==
    [type_name : {"DT"}, use_dinucleotide : {FALSE},
     len_seg_strength : {0},
     supervision_type : {SUPERVISION_UNSUPERVISED,
                         SUPERVISION_SEMISUPERVISED,
                         SUPERVISION_SUPERVISED, 3}]

YieldSegRows ==
    {[start |-> 0, end |-> 0, step |-> 1],
     [start |-> 1, end |-> 4, step |-> 1]}

InitYield ==
    /\ num_segs \in 1..MaxSegs
    /\ num_subsegs \in 1..MaxSubsegs
    /\ track_names = << "t1" >>
    /\ distribution = DISTRIBUTION_NORM /\ num_mix_components = 1
    /\ USE_MFSDG = FALSE
    /\ input_master = InputMaster__init__
    /\ random_state \in {0, 1}
    /\ obj \in DenseBuilders \cup DTBuilders
    /\ hist = << >>
    /\ ret = NoRet
    /\ card_seg_countdown \in 1..MaxCard
    /\ seg_table \in [1..num_segs -> YieldSegRows]
    /\ seg_countdowns_initial \in [1..num_segs -> {0, card_seg_countdown - 1}]
    /\ resolution = 1

\* a generator is finished once a next() has raised
Finished == hist # << >> /\ hist[Len(hist)].exc # "none"

\* one next(): r is what the generator does at its current position
Advanced(r) ==
    /\ ~Finished
    /\ ret' = [op |-> "next", exc |-> r.exc, val |-> r.val]
    /\ hist' = Append(hist,
            [op |-> "next", exc |-> r.exc,
             name |-> IF r.exc # "none" THEN ""
                      ELSE IF type_name = "DT" THEN r.val.resource
                      ELSE r.val.name])
    /\ UNCHANGED <<cfgVars, input_master, obj, tableVars>>

NextDenseCPT ==
    /\ type_name = "DENSE_CPT"
    /\ Advanced(DenseCPTParamSpec_generate_objects(Len(hist) + 1,
                                                   random_state))
    /\ random_state' =
            IF Len(hist) + 1 = 6 /\ use_dinucleotide
            THEN random_state + num_segs ELSE random_state

NextDT ==
    /\ type_name = "DT"
    /\ Advanced(DTParamSpec_generate_objects(Len(hist) + 1))
    /\ UNCHANGED random_state

NextYield == NextDenseCPT \/ NextDT

SpecYield == InitYield /\ [][NextYield]_vars

-----------------------------------------------------------------------------
(* Claims about the generators (SpecYield) *)

\* the names of the items yielded so far
YieldedNames ==
    [k \in 1..Len(SelectSeq(hist, LAMBDA h : h.exc = "none")) |-> hist[k].name]

DenseNames ==
    << "start_seg", "seg_subseg", "seg_seg", "seg_subseg_subseg",
       "segCountDown_seg_segTransition" >>

\* C21: DenseCPTParamSpec.generate_objects yields start_seg, seg_subseg,
\* seg_seg, seg_subseg_subseg, segCountDown_seg_segTransition in this order,
\* and then seg_dinucleotide with one 16-entry row per segment exactly when
\* dinucleotide modeling is enabled; it yields five tables otherwise.
C21_DenseTablesInOrder ==
    (type_name = "DENSE_CPT" /\ Finished) =>
        /\ ret.exc = "StopIteration"
        /\ YieldedNames =
            IF use_dinucleotide THEN Append(DenseNames, "seg_dinucleotide")
            ELSE DenseNames

\* without dinucleotide modeling the five tables come in the claimed order
C21_Reached ==
    /\ type_name = "DENSE_CPT" /\ Finished /\ ~use_dinucleotide
    /\ ret.exc = "StopIteration"
    /\ YieldedNames = DenseNames

DTFirstFour ==
    << "map_frameIndex_ruler.dt.txt", "map_seg_segCountDown.dt.tmpl",
       "map_segTransition_ruler_seg_segCountDown_segCountDown.dt.tmpl",
       "map_seg_subseg_obs.dt.txt" >>

C22_Trees ==
    /\ type_name = "DT" /\ Len(hist) = 2 /\ num_segs = 2
    /\ seg_countdowns_initial = << 0, 2 >>
    /\ ret.val = [resource |-> "map_seg_segCountDown.dt.tmpl",
                  tree |-> "2 0 default\n    -1 0\n    -1 2"]

-----------------------------------------------------------------------------
(* SpecPasses: several generation passes in one process.  Every pass is a    *)
(* new InputMasterSaver with its own configuration whose make_mapping works  *)
(* on the registry created once at the import of segway_input_master.        *)

MaxPasses == 2

PassTracks == TrackLists \cup {<< "t4" >>}

PassDistributions == {DISTRIBUTION_NORM, DISTRIBUTION_GAMMA}

InitPasses ==
    /\ num_segs \in 1..MaxSegs
    /\ num_subsegs \in 1..MaxSubsegs
    /\ track_names \in PassTracks
    /\ distribution \in PassDistributions
    /\ num_mix_components = 1
    /\ USE_MFSDG = FALSE
    /\ input_master = InputMaster__init__
    /\ random_state = 0
    /\ obj = ""
    /\ hist = << >>
    /\ ret = NoRet
    /\ NoTable

PassesMade == Len(SelectSeq(hist, LAMBDA h : h.op = "make_mapping"))

\* the saver of the next pass is built: its attributes replace those of the
\* last pass, the registry and the generator stay as they are
NewSaver(ns, nu, tn, dist) ==
    /\ IF hist = << >> THEN FALSE
       ELSE hist[Len(hist)].op = "make_mapping"
    /\ PassesMade < MaxPasses
    /\ num_segs' = ns /\ num_subsegs' = nu /\ track_names' = tn
    /\ distribution' = dist
    /\ hist' = Append(hist, [op |-> "InputMasterSaver", exc |-> "none"])
    /\ ret' = [op |-> "InputMasterSaver", exc |-> "none", val |-> NoValue]
    /\ UNCHANGED <<num_mix_components, USE_MFSDG, input_master,
                   random_state, obj, tableVars>>

\* make_mapping of the current saver
MakeMappingOfPass ==
    /\ IF hist = << >> THEN TRUE
       ELSE hist[Len(hist)].op = "InputMasterSaver"
    /\ \E r \in {make_mapping(input_master, random_state)} :
        /\ input_master' = r.im
        /\ random_state' = r.rs
        /\ hist' = Append(hist, [op |-> "make_mapping", exc |-> r.exc])
        /\ ret' = [op |-> "make_mapping", exc |-> r.exc, val |-> r.val]
    /\ UNCHANGED <<cfgVars, obj, tableVars>>

NextPasses ==
    \/ MakeMappingOfPass
    \/ \E ns \in 1..MaxSegs, nu \in 1..MaxSubsegs, tn \in PassTracks,
          dist \in PassDistributions : NewSaver(ns, nu, tn, dist)

SpecPasses == InitPasses /\ [][NextPasses]_vars

-----------------------------------------------------------------------------
(* Claims about repeated passes (SpecPasses) *)

PassReturned == ret.op = "make_mapping" /\ ret.exc = "none"

\* the names a pass with the current configuration builds, per kind
NamesOfPass(kind) ==
    IF kind = "mc"
    THEN Range(names_of(IF NormLike THEN "mc_diag" ELSE "mc_gamma"))
    ELSE IF kind = "dpmf" THEN {"dpmf_always"}
    ELSE Range(names_of(kind))

\* C23: the registry lives for one generation pass: the blocks a pass
\* returns, which render the registry, contain only objects built by that
\* pass, and every MX built by the pass is paired with the MC and the DPMF
\* the same pass built for the same (seg, subseg, track), also when an
\* earlier pass with another configuration has run in the same process.
C23_RegistryOfOnePass ==
    PassReturned =>
        /\ Range(od_keys(input_master.name_collection)) = NamesOfPass("col")
        /\ Range(od_keys(input_master.mc)) = NamesOfPass("mc")
        /\ Range(od_keys(input_master.dpmf)) = NamesOfPass("dpmf")
        /\ Range(od_keys(input_master.mx)) = NamesOfPass("mx")
        /\ ret.val.mx_spec = generate_mx(input_master)
        /\ ret.val.mc_spec = generate_mc(input_master)
        /\ \A c \in Cells :
            LET t == track_names[c[3]]
                mx == od_get(input_master.mx, CellName("mx", c[1], c[2], t))
            IN /\ Len(mx.comp) = 1
               /\ IsMcOfCell(mx.comp[1], c[1], c[2], t)
               /\ mx.dpmf = od_get(input_master.dpmf, "dpmf_always")

\* the first pass of a process, on the registry as created
C23_FirstPass ==
    /\ PassReturned /\ PassesMade = 1
    /\ distribution = DISTRIBUTION_GAMMA
    /\ num_segs = 2 /\ track_names = << "t1", "t2" >>
    /\ Range(od_keys(input_master.mx)) = NamesOfPass("mx")

\* a second pass after a pass with other track names
C23_SecondPass ==
    /\ PassReturned /\ PassesMade = 2
    /\ track_names = << "t4" >>
    /\ od_has(input_master.mx, "mx_seg0_subseg0_t1")
    /\ od_get(input_master.mx, "mx_seg0_subseg0_t4").comp[1].name
            = "mc_gamma_seg0_subseg0_t1"

====
